---- MODULE Spec2Model ----
(***************************************************************************)
(* Daily-ledger record form (RecordForm.tsx, both revisions found in the   *)
(* file), the application context it talks to (records, customStructure,   *)
(* handleSave, handleSaveCustomItem) and the taxonomy editor               *)
(* (ExpenseStructureManager).                                              *)
(*                                                                         *)
(* Encoding of JavaScript values:                                          *)
(*   - a string typed into a text field is a sequence of one-character     *)
(*     strings, so that trim, toLowerCase, parseFloat and toString are     *)
(*     computed character by character;                                    *)
(*   - a number-or-not value (an item amount) is [k, v] with k "num",      *)
(*     "nan" or "null";                                                    *)
(*   - the optional boolean isCompleted is "true", "false" or "undefined"; *)
(*   - a date string "YYYY-MM-DD" is <<y, m, d>>, the empty string <<>>,   *)
(*     so that the string order of ISO dates is the order of the tuples.   *)
(***************************************************************************)
EXTENDS Integers, Sequences, FiniteSets, TLC

VARIABLES
    formVersion,          \* which revision of RecordForm.tsx is deployed (1 or 2)
    records,              \* context: the stored DailyRecords
    customStructure,      \* context: the Taxonomy
    billUploadCategories, \* context: categories that accept bill photos
    mounted,              \* a RecordForm is on screen
    recordId,             \* useParams().recordId: "" when the route has none
    date, morningSales, totalSales, expenses, status, isSubmitting,
    alert,                \* message of the alert() raised by the last handler, "" if none
    saveInFlight,         \* <<>> or <<[record, existingId, status]>>: the pending handleSave call
    customPending,        \* pending handleSaveCustomItem calls
    deleteInFlight,       \* <<>> or <<id>>: the pending handleDelete call
    events,               \* number of events (user actions, promise settlements) so far
    internalStructure,    \* ExpenseStructureManager: working copy of the Taxonomy
    newItemNames,         \* ExpenseStructureManager: the per-category "new item" inputs
    billFlags,            \* ExpenseStructureManager: working copy of the bill-upload list
    newCategoryName,      \* ExpenseStructureManager: the "new category" input
    deleteConfirmation,   \* ExpenseStructureManager: <<>> or <<[type, catName, itemName]>>
    dragItem,             \* ExpenseStructureManager: <<>> or <<[type, catName, index]>>
    sortedRecords,        \* Dashboard, from the context: the records on display, newest first
    allSortedRecords,     \* Dashboard, from the context: all records, newest first
    trackedItems,         \* Dashboard, from the context: the watched item names
    foodCostCategories,   \* Dashboard, from the context: the categories counted as food cost
    now,                  \* Dashboard: the clock, [date, hour] in local time
    tz,                   \* Dashboard: hours the local time is ahead of UTC
    dashboardData,        \* Dashboard: the dashboardData memo: [done, value]
    chartData,            \* Dashboard: the chartData memo: [done, value]
    inventoryAlerts,      \* Dashboard: the inventoryAlerts memo: [done, value]
    gasState,             \* gas ledger: [currentStock, emptyCylinders, totalCylinders, cylindersPerBank]
    gasResult             \* gas ledger: the error of the last event, "" if it went through

formVars == <<mounted, recordId, date, morningSales, totalSales, expenses, status, isSubmitting>>
ctxVars == <<records, customStructure, billUploadCategories>>
editorVars ==
    <<internalStructure, newItemNames, billFlags, newCategoryName, deleteConfirmation, dragItem>>
dashInputs == <<sortedRecords, allSortedRecords, trackedItems, foodCostCategories, now, tz>>
dashVars == <<dashInputs, dashboardData, chartData, inventoryAlerts>>
gasVars == <<gasState, gasResult>>
vars ==
    <<formVersion, ctxVars, formVars, alert, saveInFlight, customPending, deleteInFlight,
      events, editorVars, dashVars, gasVars>>

\* ---------------------------------------------------------------- bounds

\* Runs are explored up to this many events
MaxEvents == 5

\* Editor sessions are explored up to this many events
MaxEdits == 4

\* ---------------------------------------------------------------- JavaScript values

Num(n) == [k |-> "num", v |-> n]
NaN == [k |-> "nan", v |-> 0]
Null == [k |-> "null", v |-> 0]

IsDigit(c) == c \in {"0", "1", "2", "3", "4", "5", "6", "7", "8", "9"}

DigitVal(c) ==
    CASE c = "0" -> 0 [] c = "1" -> 1 [] c = "2" -> 2 [] c = "3" -> 3 [] c = "4" -> 4
      [] c = "5" -> 5 [] c = "6" -> 6 [] c = "7" -> 7 [] c = "8" -> 8 [] c = "9" -> 9

DigitChar(d) == <<"0", "1", "2", "3", "4", "5", "6", "7", "8", "9">>[d + 1]

IsSpace(c) == c = " "

RECURSIVE TrimStart(_)
TrimStart(s) == IF s # <<>> /\ IsSpace(Head(s)) THEN TrimStart(Tail(s)) ELSE s

RECURSIVE TrimEnd(_)
TrimEnd(s) ==
    IF s # <<>> /\ IsSpace(s[Len(s)]) THEN TrimEnd(SubSeq(s, 1, Len(s) - 1)) ELSE s

\* String.prototype.trim
trim(s) == TrimEnd(TrimStart(s))

LowerChar(c) ==
    CASE c = "R" -> "r" [] c = "S" -> "s" [] c = "I" -> "i" [] c = "O" -> "o"
      [] c = "L" -> "l" [] c = "V" -> "v" [] c = "C" -> "c"
      [] OTHER -> c

\* String.prototype.toLowerCase
toLowerCase(s) == [i \in 1..Len(s) |-> LowerChar(s[i])]

RECURSIVE DigitPrefixLen(_)
DigitPrefixLen(s) ==
    IF s # <<>> /\ IsDigit(Head(s)) THEN 1 + DigitPrefixLen(Tail(s)) ELSE 0

RECURSIVE DigitsValue(_, _)
DigitsValue(s, acc) ==
    IF s = <<>> THEN acc ELSE DigitsValue(Tail(s), acc * 10 + DigitVal(Head(s)))

\* parseFloat on texts without fraction or exponent: leading blanks are skipped,
\* an optional sign and the longest run of digits are read, the rest is ignored;
\* no digit at all gives NaN.
parseFloat(s) ==
    LET t == TrimStart(s)
        neg == t # <<>> /\ Head(t) = "-"
        body == IF neg THEN Tail(t) ELSE t
        n == DigitPrefixLen(body)
        mag == DigitsValue(SubSeq(body, 1, n), 0)
    IN  IF n = 0 THEN NaN ELSE Num(IF neg THEN 0 - mag ELSE mag)

\* x || 0 for a number-or-not x
OrZero(x) == IF x.k = "num" THEN x.v ELSE 0

RECURSIVE NatToText(_)
NatToText(n) ==
    IF n < 10 THEN <<DigitChar(n)>> ELSE NatToText(n \div 10) \o <<DigitChar(n % 10)>>

\* Number.prototype.toString for an integer
toString(n) == IF n < 0 THEN <<"-">> \o NatToText(0 - n) ELSE NatToText(n)

\* ---------------------------------------------------------------- names and inputs

Veg == <<"V">>
Staff == <<"S">>
Rice == <<"R", "i">>
Oil == <<"O">>
Salt == <<"S", "a">>
Labor == <<"L", "a", "b", "o", "r">>

Today == <<2024, 3, 10>>

DateInputs == {<<>>, Today}
\* value of an <input type="number">: empty or a valid number
SalesTexts == {<<>>, <<"7">>}
\* strings handed to handleExpenseChange
AmountTexts == {<<>>, <<"7">>, <<"x">>, <<"7", "x">>}
\* strings typed into a "new item" field
NameTexts == {<<>>, <<" ">>, <<"r", "i">>, <<" ", "R", "i", " ">>, <<"s">>}
PhotoLists == {<<>>, <<"p1">>}
Statuses == {"IN_PROGRESS", "COMPLETED", "CLOSED"}

\* ---------------------------------------------------------------- record model

Item(id, name, amount, photos) ==
    [id |-> id, name |-> name, amount |-> amount, billPhotos |-> photos]

Category(id, name, items) == [id |-> id, name |-> name, items |-> items]

RECURSIVE SeqMax(_)
SeqMax(s) ==
    IF s = <<>> THEN 0
    ELSE LET m == SeqMax(Tail(s)) IN IF Head(s) > m THEN Head(s) ELSE m

\* uuidv4() for a new item of the tree: an identifier no item of the tree has
FreshItemId(tree) ==
    1 + SeqMax([c \in 1..Len(tree) |->
                    SeqMax([j \in 1..Len(tree[c].items) |-> tree[c].items[j].id])])

\* generateNewRecordExpenses: one category per Taxonomy category, in order, each
\* item with the template's name, amount = defaultValue and no photo
generateNewRecordExpenses(structure) ==
    [c \in 1..Len(structure) |->
        Category(c, structure[c].name,
            [j \in 1..Len(structure[c].items) |->
                Item(c * 100 + j, structure[c].items[j].name,
                     Num(structure[c].items[j].defaultValue), <<>>)])]

\* JSON.parse(JSON.stringify(expenses)): NaN is written as null
JsonAmount(a) == IF a.k = "num" THEN a ELSE Null

DeepCopy(tree) ==
    [c \in 1..Len(tree) |->
        [tree[c] EXCEPT !.items =
            [j \in 1..Len(tree[c].items) |->
                [tree[c].items[j] EXCEPT !.amount = JsonAmount(@)]]]]

\* records.find(r => r.id === recordId): <<>> or <<record>>
FindRecord(recs, id) == SelectSeq(recs, LAMBDA r : r.id = id)

\* ---------------------------------------------------------------- RecordForm: pure parts

\* "Set Status" of the first revision of the form
DecodeStatusV1(record) ==
    IF record.isClosed THEN "CLOSED"
    ELSE IF record.isCompleted = "true" THEN "COMPLETED"
    ELSE "IN_PROGRESS"

\* "Set Status" of the second revision of the form
DecodeStatusV2(record) ==
    IF record.isClosed THEN "CLOSED"
    ELSE IF record.isCompleted = "false" THEN "IN_PROGRESS"
    ELSE "COMPLETED"

DecodeStatus(version, record) ==
    IF version = 1 THEN DecodeStatusV1(record) ELSE DecodeStatusV2(record)

\* The form's state as the useState initialisers leave it
FreshForm ==
    [date |-> Today, morningSales |-> <<>>, totalSales |-> <<>>, expenses |-> <<>>,
     status |-> "IN_PROGRESS", found |-> TRUE]

\* Mutant of InitializeData: in edit mode the tree is built from the Taxonomy
InitializeDataFromTaxonomy(version, rid, recs, structure, cur) ==
    IF rid # ""
    THEN LET hit == FindRecord(recs, rid) IN
         IF hit # <<>>
         THEN LET record == hit[1] IN
              [cur EXCEPT
                  !.date = record.date,
                  !.morningSales = IF record.morningSales # 0
                                   THEN toString(record.morningSales) ELSE <<>>,
                  !.totalSales = toString(record.totalSales),
                  !.expenses = generateNewRecordExpenses(structure),
                  !.status = DecodeStatus(version, record)]
         ELSE [cur EXCEPT !.found = FALSE]
    ELSE [cur EXCEPT !.expenses = generateNewRecordExpenses(structure),
                     !.status = "IN_PROGRESS"]

\* The "Initialize Data" effect: what it sets, given what the form holds (cur)
InitializeData(version, rid, recs, structure, cur) ==
    IF rid # ""
    THEN LET hit == FindRecord(recs, rid) IN
         IF hit # <<>>
         THEN LET record == hit[1] IN
              [cur EXCEPT
                  !.date = record.date,
                  !.morningSales = IF record.morningSales # 0
                                   THEN toString(record.morningSales) ELSE <<>>,
                  !.totalSales = toString(record.totalSales),
                  !.expenses = DeepCopy(record.expenses),
                  !.status = DecodeStatus(version, record)]
         ELSE [cur EXCEPT !.found = FALSE]
    ELSE [cur EXCEPT !.expenses = generateNewRecordExpenses(structure),
                     !.status = "IN_PROGRESS"]

\* amount === '' ? 0 : parseFloat(amount)
AmountOf(amount) == IF amount = <<>> THEN Num(0) ELSE parseFloat(amount)

handleExpenseChange(tree, categoryId, itemId, amount) ==
    [c \in 1..Len(tree) |->
        IF tree[c].id # categoryId THEN tree[c]
        ELSE [tree[c] EXCEPT !.items =
                [j \in 1..Len(tree[c].items) |->
                    IF tree[c].items[j].id # itemId THEN tree[c].items[j]
                    ELSE [tree[c].items[j] EXCEPT !.amount = AmountOf(amount)]]]]

handlePhotosChange(tree, categoryId, itemId, photos) ==
    [c \in 1..Len(tree) |->
        IF tree[c].id # categoryId THEN tree[c]
        ELSE [tree[c] EXCEPT !.items =
                [j \in 1..Len(tree[c].items) |->
                    IF tree[c].items[j].id # itemId THEN tree[c].items[j]
                    ELSE [tree[c].items[j] EXCEPT !.billPhotos = photos]]]]

\* Mutant of ItemExists: the names are compared as they are
ItemExistsCaseSensitive(tree, categoryId, name) ==
    \E c \in 1..Len(tree) :
        /\ tree[c].id = categoryId
        /\ \E j \in 1..Len(tree[c].items) : tree[c].items[j].name = name

\* category.items.some(i => i.name.toLowerCase() === name.toLowerCase()) for the
\* category with that id (false when there is none)
ItemExists(tree, categoryId, name) ==
    \E c \in 1..Len(tree) :
        /\ tree[c].id = categoryId
        /\ \A d \in 1..(c - 1) : tree[d].id # categoryId
        /\ \E j \in 1..Len(tree[c].items) :
               toLowerCase(tree[c].items[j].name) = toLowerCase(name)

AppendItem(tree, categoryId, newItem) ==
    [c \in 1..Len(tree) |->
        IF tree[c].id # categoryId THEN tree[c]
        ELSE [tree[c] EXCEPT !.items = Append(@, newItem)]]

\* handleAddItem of the form, up to its await: the alert it raises, the tree it
\* leaves and whether it goes on to call handleSaveCustomItem
handleAddItem(tree, categoryId, input, permanent) ==
    LET name == trim(input) IN
    IF name = <<>>
    THEN [alert |-> "", expenses |-> tree, name |-> name, saveCustom |-> FALSE]
    ELSE IF ItemExists(tree, categoryId, name)
    THEN [alert |-> "Item already exists in this category.", expenses |-> tree,
          name |-> name, saveCustom |-> FALSE]
    ELSE [alert |-> "",
          expenses |-> AppendItem(tree, categoryId,
                                  Item(FreshItemId(tree), name, Num(0), <<>>)),
          name |-> name, saveCustom |-> permanent]

\* Mutant of SubmitAlert: the date is not checked
SubmitAlertNoDateCheck(d, st, sales) ==
    IF st # "CLOSED" /\ sales = <<>> /\ st = "COMPLETED"
    THEN "Total Sales is required to mark as Completed"
    ELSE ""

\* Mutant of SubmitAlert: Total Sales is required for every status but IN_PROGRESS
SubmitAlertSalesUnlessInProgress(d, st, sales) ==
    IF d = <<>> THEN "Date is required"
    ELSE IF sales = <<>> /\ st # "IN_PROGRESS"
    THEN "Total Sales is required to mark as Completed"
    ELSE ""

\* The two validations of handleSubmit: the alert raised, "" when both pass
SubmitAlert(d, st, sales) ==
    IF d = <<>> THEN "Date is required"
    ELSE IF st # "CLOSED" /\ sales = <<>> /\ st = "COMPLETED"
    THEN "Total Sales is required to mark as Completed"
    ELSE ""

\* Mutant of NewRecord: only COMPLETED sets isCompleted
NewRecordClosedNotCompleted(id, d, morning, sales, tree, st) ==
    [id |-> id, date |-> d,
     morningSales |-> OrZero(parseFloat(morning)),
     totalSales |-> OrZero(parseFloat(sales)),
     expenses |-> tree,
     isClosed |-> (st = "CLOSED"),
     isCompleted |-> IF st = "COMPLETED" THEN "true" ELSE "false"]

\* newRecord of handleSubmit
NewRecord(id, d, morning, sales, tree, st) ==
    [id |-> id, date |-> d,
     morningSales |-> OrZero(parseFloat(morning)),
     totalSales |-> OrZero(parseFloat(sales)),
     expenses |-> tree,
     isClosed |-> (st = "CLOSED"),
     isCompleted |-> IF st = "COMPLETED" \/ st = "CLOSED" THEN "true" ELSE "false"]

\* ---------------------------------------------------------------- context (AppContext)

DateBefore(a, b) ==
    \/ a[1] < b[1]
    \/ a[1] = b[1] /\ a[2] < b[2]
    \/ a[1] = b[1] /\ a[2] = b[2] /\ a[3] < b[3]

RECURSIVE InsertByDate(_, _)
InsertByDate(recs, record) ==
    IF recs = <<>> THEN <<record>>
    ELSE IF DateBefore(Head(recs).date, record.date) THEN <<record>> \o recs
    ELSE <<Head(recs)>> \o InsertByDate(Tail(recs), record)

\* Save(record, existingId?): create when existingId is absent, else replace the
\* record with that id; the collection stays sorted by date, newest first
SaveRecord(recs, record, existingId) ==
    IF existingId = "" THEN InsertByDate(recs, record)
    ELSE InsertByDate(SelectSeq(recs, LAMBDA r : r.id # existingId), record)

\* SaveCustomItem(categoryName, itemName, defaultValue): appends the template to
\* that category of the Taxonomy (the category is added when it is missing)
SaveCustomItem(structure, categoryName, itemName, defaultValue) ==
    LET template == [name |-> itemName, defaultValue |-> defaultValue] IN
    IF \E c \in 1..Len(structure) : structure[c].name = categoryName
    THEN [c \in 1..Len(structure) |->
            IF structure[c].name = categoryName
            THEN [structure[c] EXCEPT !.items = Append(@, template)]
            ELSE structure[c]]
    ELSE Append(structure, [name |-> categoryName, items |-> <<template>>])

\* ---------------------------------------------------------------- numbers and dates

Abs(n) == IF n < 0 THEN 0 - n ELSE n

RECURSIVE GCD(_, _)
GCD(a, b) == IF b = 0 THEN a ELSE GCD(b, a % b)

\* A JavaScript number that a division produced is kept as the exact fraction
\* n / d in lowest terms with d > 0 (rounding of the floating point is left out)
Rat(n, d) ==
    LET g == GCD(Abs(n), Abs(d))
        sign == IF d < 0 THEN 0 - 1 ELSE 1
    IN  [n |-> sign * (n \div g), d |-> Abs(d) \div g]

RatOfInt(n) == [n |-> n, d |-> 1]
RatSub(a, b) == Rat(a.n * b.d - b.n * a.d, a.d * b.d)
RatDiv(a, b) == Rat(a.n * b.d, a.d * b.n)
RatMul(a, b) == Rat(a.n * b.n, a.d * b.d)
RatAbs(a) == [n |-> Abs(a.n), d |-> a.d]

\* Math.ceil(a / b) for a >= 0, b > 0
CeilDiv(a, b) == (a + b - 1) \div b

IsLeapYear(y) == (y % 4 = 0 /\ y % 100 # 0) \/ y % 400 = 0

DaysInMonth(y, m) ==
    IF m = 2 THEN (IF IsLeapYear(y) THEN 29 ELSE 28)
    ELSE IF m \in {4, 6, 9, 11} THEN 30 ELSE 31

\* Days from 1970-01-01 to the calendar date
DaysFromCivil(d) ==
    LET y == IF d[2] <= 2 THEN d[1] - 1 ELSE d[1]
        era == y \div 400
        yoe == y - era * 400
        mp == IF d[2] > 2 THEN d[2] - 3 ELSE d[2] + 9
        doy == (153 * mp + 2) \div 5 + d[3] - 1
        doe == yoe * 365 + yoe \div 4 - yoe \div 100 + doy
    IN  era * 146097 + doe - 719468

SecondsPerDay == 60 * 60 * 24

\* new Date("YYYY-MM-DD").getTime(): a date-only string is midnight UTC. The
\* value is kept in seconds, a whole number of them for every such date.
getTime(d) == DaysFromCivil(d) * SecondsPerDay

\* Mutant of DateStringLeq: equal dates do not pass
DateStringLess(a, b) ==
    \/ a[1] < b[1]
    \/ a[1] = b[1] /\ a[2] < b[2]
    \/ a[1] = b[1] /\ a[2] = b[2] /\ a[3] < b[3]

\* a <= b for two "YYYY-MM-DD" strings (string comparison, character by character)
DateStringLeq(a, b) ==
    \/ a[1] < b[1]
    \/ a[1] = b[1] /\ a[2] < b[2]
    \/ a[1] = b[1] /\ a[2] = b[2] /\ a[3] <= b[3]

\* String.prototype.includes
includes(s, sub) == \E i \in 0..(Len(s) - Len(sub)) : SubSeq(s, i + 1, i + Len(sub)) = sub

\* Array.prototype.includes
ArrayIncludes(list, x) == \E i \in 1..Len(list) : list[i] = x

\* ---------------------------------------------------------------- Dashboard: pure parts

\* items.reduce((s, i) => s + (i.amount || 0), 0)
RECURSIVE SumAmounts(_)
SumAmounts(items) ==
    IF items = <<>> THEN 0 ELSE OrZero(Head(items).amount) + SumAmounts(Tail(items))

\* calculateTotalExpenses(record) of utils/record-utils
RECURSIVE SumCategories(_)
SumCategories(tree) ==
    IF tree = <<>> THEN 0 ELSE SumAmounts(Head(tree).items) + SumCategories(Tail(tree))

calculateTotalExpenses(record) == SumCategories(record.expenses)

\* list.reduce((sum, x) => sum + x, 0)
RECURSIVE SumSeq(_)
SumSeq(list) == IF list = <<>> THEN 0 ELSE Head(list) + SumSeq(Tail(list))

\* getTodayDateString() and getThisMonthRange() of utils/record-utils: the local
\* calendar date, and the first and the last day of the local month
getTodayDateString(clock) == clock.date

getThisMonthRange(clock) ==
    [start |-> <<clock.date[1], clock.date[2], 1>>,
     end |-> <<clock.date[1], clock.date[2], DaysInMonth(clock.date[1], clock.date[2])>>]

\* lastMonthDate.setDate(0): the last day of the previous month, in local time
\* and at the same time of day
LastDayOfPreviousMonth(d) ==
    LET y == IF d[2] = 1 THEN d[1] - 1 ELSE d[1]
        m == IF d[2] = 1 THEN 12 ELSE d[2] - 1
    IN  <<y, m, DaysInMonth(y, m)>>

\* lastMonthDate.toISOString().split('T')[0].substring(0, 7): year and month of
\* that instant in UTC. The local time of day less the zone's offset falls on the
\* same UTC day, on the day before (still that month) or on the day after, which
\* is the first day of the month the clock is in.
lastMonthStr(clock, zone) ==
    LET last == LastDayOfPreviousMonth(clock.date)
        utcHour == clock.hour - zone
    IN  IF utcHour >= 24 THEN <<clock.date[1], clock.date[2]>> ELSE <<last[1], last[2]>>

\* r.date.startsWith(lastMonthStr)
startsWithMonth(d, month) == <<d[1], d[2]>> = month

\* the labour heuristic on a category name
IsLabourName(name) ==
    \/ includes(toLowerCase(name), <<"l", "a", "b", "o", "u", "r">>)
    \/ includes(toLowerCase(name), <<"l", "a", "b", "o", "r">>)

\* what the forEach adds to foodCost for the records of the list
foodCostOf(list, food) ==
    SumSeq([i \in 1..Len(list) |->
        SumSeq([c \in 1..Len(list[i].expenses) |->
            IF ArrayIncludes(food, list[i].expenses[c].name)
            THEN SumAmounts(list[i].expenses[c].items) ELSE 0])])

\* what the forEach adds to laborCost for the records of the list
laborCostOf(list) ==
    SumSeq([i \in 1..Len(list) |->
        SumSeq([c \in 1..Len(list[i].expenses) |->
            IF IsLabourName(list[i].expenses[c].name)
            THEN SumAmounts(list[i].expenses[c].items) ELSE 0])])

recordProfit(r) == r.totalSales - calculateTotalExpenses(r)

\* the dashboardData memo
computeDashboardData(sorted, all, food, clock, zone) ==
    LET range == getThisMonthRange(clock)
        currentMonthRecords ==
            SelectSeq(sorted, LAMBDA r : /\ DateStringLeq(range.start, r.date)
                                         /\ DateStringLeq(r.date, range.end)
                                         /\ ~r.isClosed)
        sales == SumSeq([i \in 1..Len(currentMonthRecords) |->
                             currentMonthRecords[i].totalSales])
        spent == SumSeq([i \in 1..Len(currentMonthRecords) |->
                             calculateTotalExpenses(currentMonthRecords[i])])
        netProfit == sales - spent
        foodCost == foodCostOf(currentMonthRecords, food)
        laborCost == laborCostOf(currentMonthRecords)
        month == lastMonthStr(clock, zone)
        lastMonthRecords ==
            SelectSeq(all, LAMBDA r : startsWithMonth(r.date, month) /\ ~r.isClosed)
        lastMonthAvgProfit ==
            IF Len(lastMonthRecords) > 0
            THEN Rat(SumSeq([i \in 1..Len(lastMonthRecords) |->
                                 recordProfit(lastMonthRecords[i])]),
                     Len(lastMonthRecords))
            ELSE RatOfInt(0)
        currentMonthAvgProfit ==
            IF Len(currentMonthRecords) > 0
            THEN Rat(netProfit, Len(currentMonthRecords))
            ELSE RatOfInt(0)
    IN  [totalSales |-> sales,
         totalExpenses |-> spent,
         netProfit |-> netProfit,
         foodCostPct |-> IF sales > 0 THEN Rat(foodCost * 100, sales) ELSE RatOfInt(0),
         laborCostPct |-> IF sales > 0 THEN Rat(laborCost * 100, sales) ELSE RatOfInt(0),
         diffPercent |->
             IF lastMonthAvgProfit.n # 0
             THEN RatMul(RatDiv(RatSub(currentMonthAvgProfit, lastMonthAvgProfit),
                                RatAbs(lastMonthAvgProfit)),
                         RatOfInt(100))
             ELSE RatOfInt(0),
         hasData |-> Len(currentMonthRecords) > 0,
         recordCount |-> Len(currentMonthRecords)]

\* Mutant of Reverse: the order is kept
KeepOrder(list) == list

\* Array.prototype.reverse
Reverse(list) == [i \in 1..Len(list) |-> list[Len(list) + 1 - i]]

\* Array.prototype.slice(0, n)
SliceFront(list, n) == SubSeq(list, 1, IF Len(list) < n THEN Len(list) ELSE n)

\* the chartData memo takes this many records
TrendWindow == 14

\* the chartData memo
computeChartData(all) ==
    LET data == Reverse(SliceFront(all, TrendWindow)) IN
    [i \in 1..Len(data) |->
        [date |-> data[i].date,
         sales |-> data[i].totalSales,
         expenses |-> calculateTotalExpenses(data[i]),
         profit |-> data[i].totalSales - calculateTotalExpenses(data[i])]]

\* Mutant of Purchased: the amount is not looked at
PurchasedAnyAmount(r, itemName) ==
    \E c \in 1..Len(r.expenses) : \E j \in 1..Len(r.expenses[c].items) :
        r.expenses[c].items[j].name = itemName

\* r.expenses.some(cat => cat.items.some(i => i.name === itemName && i.amount > 0))
Purchased(r, itemName) ==
    \E c \in 1..Len(r.expenses) : \E j \in 1..Len(r.expenses[c].items) :
        LET i == r.expenses[c].items[j] IN
        i.name = itemName /\ i.amount.k = "num" /\ i.amount.v > 0

\* one entry of alerts for a tracked item
alertFor(all, itemName, today) ==
    LET found == SelectSeq(all, LAMBDA r : Purchased(r, itemName)) IN
    IF found # <<>>
    THEN [name |-> itemName,
          daysAgo |-> CeilDiv(Abs(getTime(today) - getTime(found[1].date)), SecondsPerDay)]
    ELSE [name |-> itemName, daysAgo |-> 0 - 1]

\* where a stable sort with the comparator (a, b) => b.daysAgo - a.daysAgo puts x
\* in a list already sorted: behind every entry that is not smaller
RECURSIVE InsertAlert(_, _)
InsertAlert(sortedList, x) ==
    IF sortedList = <<>> THEN <<x>>
    ELSE IF x.daysAgo - Head(sortedList).daysAgo > 0 THEN <<x>> \o sortedList
    ELSE <<Head(sortedList)>> \o InsertAlert(Tail(sortedList), x)

\* alerts.sort((a, b) => b.daysAgo - a.daysAgo)
RECURSIVE sortAlerts(_)
sortAlerts(alerts) ==
    IF alerts = <<>> THEN <<>>
    ELSE InsertAlert(sortAlerts(SubSeq(alerts, 1, Len(alerts) - 1)), alerts[Len(alerts)])

\* the inventoryAlerts memo
computeInventoryAlerts(all, tracked, clock) ==
    IF Len(tracked) = 0 THEN <<>>
    ELSE sortAlerts([t \in 1..Len(tracked) |->
                        alertFor(all, tracked[t], getTodayDateString(clock))])

\* ---------------------------------------------------------------- RecordForm: the memos

\* the currentTotalExpenses memo
currentTotalExpenses(tree) == SumSeq([c \in 1..Len(tree) |-> SumAmounts(tree[c].items)])

\* Mutant of currentProfit: a loss is shown as 0
currentProfitFloored(sales, total) ==
    IF OrZero(parseFloat(sales)) - total < 0 THEN 0 ELSE OrZero(parseFloat(sales)) - total

\* the currentProfit memo
currentProfit(sales, total) == OrZero(parseFloat(sales)) - total

\* ---------------------------------------------------------------- initial state

InitStructure ==
    << [name |-> Veg, items |-> << [name |-> Rice, defaultValue |-> 5] >>],
       [name |-> Staff, items |-> <<>>] >>

InitBillUploadCategories == <<Veg>>

\* A record written before isCompleted existed, and one left in progress
InitRecords ==
    << [id |-> "r1", date |-> <<2024, 3, 5>>, morningSales |-> 0, totalSales |-> 7,
        expenses |-> << Category(1, Veg, << Item(101, Oil, Num(7), <<>>) >>) >>,
        isClosed |-> FALSE, isCompleted |-> "undefined"],
       [id |-> "r2", date |-> <<2024, 3, 4>>, morningSales |-> 7, totalSales |-> 0,
        expenses |-> << Category(1, Staff, <<>>) >>,
        isClosed |-> FALSE, isCompleted |-> "false"] >>

\* Taxonomies an editor session can commit
CommittedStructures ==
    { << [name |-> Staff, items |-> <<>>],
         [name |-> Veg, items |-> << [name |-> Oil, defaultValue |-> 0],
                                     [name |-> Rice, defaultValue |-> 5] >>] >> }

\* uuidv4() for a new record: an identifier no stored record has
NewRecordIds == {"n1", "n2", "n3", "n4"}

FreshRecordId(recs) ==
    CHOOSE id \in NewRecordIds : \A i \in 1..Len(recs) : recs[i].id # id

CtxInit ==
    /\ records = InitRecords
    /\ customStructure = InitStructure
    /\ billUploadCategories = InitBillUploadCategories

FormInit ==
    /\ mounted = FALSE
    /\ recordId = ""
    /\ date = FreshForm.date
    /\ morningSales = FreshForm.morningSales
    /\ totalSales = FreshForm.totalSales
    /\ expenses = FreshForm.expenses
    /\ status = FreshForm.status
    /\ isSubmitting = FALSE
    /\ alert = ""
    /\ saveInFlight = <<>>
    /\ customPending = <<>>
    /\ deleteInFlight = <<>>
    /\ events = 0

Cafe == <<"C">>
Seven == <<"7">>

\* Category names the editor meets
EditorCategoryNames == {Veg, Staff, Labor, Cafe, Seven}

\* The useState initial values of the editor for these props
EditorMount(structure, initialBillUploadCategories) ==
    /\ internalStructure = structure
    /\ billFlags = initialBillUploadCategories
    /\ newCategoryName = <<>>
    /\ newItemNames = [c \in EditorCategoryNames |-> <<>>]
    /\ deleteConfirmation = <<>>
    /\ dragItem = <<>>

\* The editor as it opens on the initial Taxonomy
EditorInit == EditorMount(InitStructure, InitBillUploadCategories)

\* A memo that has not been computed, and one that holds a value
Pending == [done |-> FALSE]
Computed(v) == [done |-> TRUE, value |-> v]

\* No Dashboard is on screen
DashboardIdle ==
    /\ sortedRecords = <<>>
    /\ allSortedRecords = <<>>
    /\ trackedItems = <<>>
    /\ foodCostCategories = <<>>
    /\ now = [date |-> Today, hour |-> 10]
    /\ tz = 0
    /\ dashboardData = Pending
    /\ chartData = Pending
    /\ inventoryAlerts = Pending

\* No gas ledger is in use
GasIdle ==
    /\ gasState = [currentStock |-> 0, emptyCylinders |-> 0, totalCylinders |-> 0,
                   cylindersPerBank |-> 0]
    /\ gasResult = ""

Init ==
    /\ formVersion \in {1, 2}
    /\ CtxInit
    /\ FormInit
    /\ EditorInit
    /\ DashboardIdle
    /\ GasIdle

\* ---------------------------------------------------------------- Dashboard: inputs

\* Stored records, newest first, as handleSubmit writes them for the typed sales
\* texts (the number inputs take a sign), and one with an amount that was read
\* back from storage as null
Pool ==
    << NewRecord("p1", <<2024, 4, 1>>, <<>>, toString(3),
                 << Category(1, Veg, << Item(101, Rice, Num(1), <<>>) >>) >>, "COMPLETED"),
       NewRecord("p2", <<2024, 3, 31>>, <<>>, <<"-", "5">>,
                 << Category(1, Veg, << Item(101, Rice, Num(2), <<>>) >>) >>, "COMPLETED"),
       NewRecord("p3", <<2024, 3, 10>>, <<>>, toString(10),
                 << Category(1, Veg, << Item(101, Rice, Num(0), <<>>),
                                        Item(102, Oil, Num(2), <<>>) >>),
                    Category(2, Labor, << Item(201, Oil, Num(3), <<>>) >>) >>, "COMPLETED"),
       NewRecord("p4", <<2024, 3, 5>>, <<>>, toString(7),
                 << Category(1, Veg, << Item(101, Rice, Num(4), <<>>),
                                        Item(102, Oil, NaN, <<>>) >>) >>, "IN_PROGRESS"),
       NewRecord("p5", <<2024, 3, 2>>, <<>>, toString(5),
                 << Category(1, Veg, << Item(101, Oil, Num(1), <<>>) >>) >>, "CLOSED"),
       NewRecord("p6", <<2024, 3, 1>>, <<>>, toString(2),
                 << Category(1, Staff, << Item(101, Oil, Num(1), <<>>) >>) >>, "COMPLETED"),
       NewRecord("p7", <<2024, 2, 29>>, <<>>, toString(4),
                 << Category(1, Veg, << Item(101, Oil, Num(6), <<>>) >>),
                    Category(2, Labor, << Item(201, Rice, Null, <<>>) >>) >>, "COMPLETED"),
       NewRecord("p8", <<2024, 2, 10>>, <<>>, <<>>,
                 << Category(1, Veg, << Item(101, Rice, Num(6), <<>>) >>) >>, "IN_PROGRESS") >>

\* The records of Pool with these positions, in the order of Pool
SubPool(S) ==
    [k \in 1..Cardinality(S) |->
        Pool[CHOOSE i \in S : Cardinality({j \in S : j < i}) = k - 1]]

\* One record a day, newest first, for n days
DailyRecords(n) ==
    [i \in 1..n |->
        NewRecord(toString(i), <<2024, 3, n + 1 - i>>, <<>>, toString(i),
                  << Category(1, Veg, << Item(101, Rice, Num(i % 3), <<>>) >>) >>,
                  "COMPLETED")]

\* Collections the context can hold: sorted by date, newest first
RecordLists ==
    {SubPool(S) : S \in SUBSET (1..Len(Pool))}
        \cup {DailyRecords(n) : n \in (TrendWindow - 1)..(TrendWindow + 2)}

TrackedLists == {<<>>, <<Rice>>, <<Salt, Rice, Oil>>, <<Oil, Salt>>}
FoodLists == {<<>>, <<Veg>>}
Clocks ==
    {[date |-> Today, hour |-> 10], [date |-> Today, hour |-> 20],
     [date |-> <<2024, 2, 29>>, hour |-> 10]}
Zones == {5, 0 - 5}

\* A Dashboard is on screen and nothing else
InitDashboard ==
    /\ formVersion = 2
    /\ CtxInit
    /\ FormInit
    /\ EditorInit
    /\ GasIdle
    /\ allSortedRecords \in RecordLists
    /\ sortedRecords \in {allSortedRecords, SliceFront(allSortedRecords, 3)}
    /\ trackedItems \in TrackedLists
    /\ foodCostCategories \in FoodLists
    /\ now \in Clocks
    /\ tz \in Zones
    /\ dashboardData = Pending
    /\ chartData = Pending
    /\ inventoryAlerts = Pending

\* ---------------------------------------------------------------- RecordForm: actions

\* One more event, within the explored run length
Tick ==
    /\ events < MaxEvents
    /\ events' = events + 1

FormNow ==
    [date |-> date, morningSales |-> morningSales, totalSales |-> totalSales,
     expenses |-> expenses, status |-> status, found |-> TRUE]

SetForm(f) ==
    /\ date' = f.date
    /\ morningSales' = f.morningSales
    /\ totalSales' = f.totalSales
    /\ expenses' = f.expenses
    /\ status' = f.status

Unmount ==
    /\ mounted' = FALSE
    /\ recordId' = ""
    /\ SetForm(FreshForm)
    /\ isSubmitting' = FALSE

\* The effect runs: the form takes what it sets, or, when the record is not found,
\* alerts and navigates to the record list
RunEffect(rid, recs, structure, cur) ==
    LET f == InitializeData(formVersion, rid, recs, structure, cur) IN
    IF f.found
    THEN /\ mounted' = TRUE
         /\ recordId' = rid
         /\ SetForm(f)
         /\ isSubmitting' = isSubmitting
         /\ alert' = ""
    ELSE /\ Unmount
         /\ alert' = "Record not found"

\* Route /records/new: mount, then the effect
OpenNew ==
    /\ Tick
    /\ ~mounted
    /\ saveInFlight = <<>>
    /\ deleteInFlight = <<>>
    /\ RunEffect("", records, customStructure, FreshForm)
    /\ UNCHANGED <<formVersion, ctxVars, saveInFlight, customPending, editorVars, dashVars,
                   deleteInFlight, gasVars>>

\* Route /records/:recordId: mount, then the effect
OpenEdit ==
    /\ Tick
    /\ ~mounted
    /\ saveInFlight = <<>>
    /\ deleteInFlight = <<>>
    /\ \E rid \in {records[i].id : i \in 1..Len(records)} \cup {"gone"} :
           RunEffect(rid, records, customStructure, FreshForm)
    /\ UNCHANGED <<formVersion, ctxVars, saveInFlight, customPending, editorVars, dashVars,
                   deleteInFlight, gasVars>>

\* The user leaves the form without saving
CloseForm ==
    /\ Tick
    /\ mounted
    /\ Unmount
    /\ alert' = ""
    /\ UNCHANGED <<formVersion, ctxVars, saveInFlight, customPending, editorVars, dashVars,
                   deleteInFlight, gasVars>>

SetDate ==
    /\ Tick
    /\ mounted
    /\ \E d \in DateInputs \ {date} : date' = d
    /\ alert' = ""
    /\ UNCHANGED <<formVersion, ctxVars, mounted, recordId, morningSales, totalSales,
                   expenses, status, isSubmitting, saveInFlight, customPending, editorVars, dashVars,
                   deleteInFlight, gasVars>>

\* The Sales section is rendered only while status is not CLOSED
SetTotalSales ==
    /\ Tick
    /\ mounted
    /\ status # "CLOSED"
    /\ \E t \in SalesTexts \ {totalSales} : totalSales' = t
    /\ alert' = ""
    /\ UNCHANGED <<formVersion, ctxVars, mounted, recordId, date, morningSales,
                   expenses, status, isSubmitting, saveInFlight, customPending, editorVars, dashVars,
                   deleteInFlight, gasVars>>

SetMorningSales ==
    /\ Tick
    /\ mounted
    /\ status # "CLOSED"
    /\ \E t \in SalesTexts \ {morningSales} : morningSales' = t
    /\ alert' = ""
    /\ UNCHANGED <<formVersion, ctxVars, mounted, recordId, date, totalSales,
                   expenses, status, isSubmitting, saveInFlight, customPending, editorVars, dashVars,
                   deleteInFlight, gasVars>>

\* One of the three status buttons (the selected one changes nothing)
SetStatus ==
    /\ Tick
    /\ mounted
    /\ \E s \in Statuses \ {status} : status' = s
    /\ alert' = ""
    /\ UNCHANGED <<formVersion, ctxVars, mounted, recordId, date, morningSales,
                   totalSales, expenses, isSubmitting, saveInFlight, customPending, editorVars, dashVars,
                   deleteInFlight, gasVars>>

HandleExpenseChangeAt(c, j, amount) ==
    /\ Tick
    /\ mounted
    /\ expenses' = handleExpenseChange(expenses, expenses[c].id,
                                       expenses[c].items[j].id, amount)
    /\ expenses' # expenses
    /\ alert' = ""
    /\ UNCHANGED <<formVersion, ctxVars, mounted, recordId, date, morningSales,
                   totalSales, status, isSubmitting, saveInFlight, customPending,
                   editorVars, dashVars,
                   deleteInFlight, gasVars>>

\* onChange of the amount input of an item
HandleExpenseChange ==
    \E c \in 1..Len(expenses) : \E j \in 1..Len(expenses[c].items) :
        \E amount \in AmountTexts : HandleExpenseChangeAt(c, j, amount)

\* ImageUpload is rendered only for categories of billUploadCategories
HandlePhotosChange ==
    /\ Tick
    /\ mounted
    /\ \E c \in 1..Len(expenses) : \E j \in 1..Len(expenses[c].items) :
         \E photos \in PhotoLists :
           /\ \E b \in 1..Len(billUploadCategories) :
                  billUploadCategories[b] = expenses[c].name
           /\ expenses' = handlePhotosChange(expenses, expenses[c].id,
                                             expenses[c].items[j].id, photos)
           /\ expenses' # expenses
    /\ alert' = ""
    /\ UNCHANGED <<formVersion, ctxVars, mounted, recordId, date, morningSales,
                   totalSales, status, isSubmitting, saveInFlight, customPending, editorVars, dashVars,
                   deleteInFlight, gasVars>>

\* The "add custom item" row of a category (second revision of the form only):
\* the text of its input, its "save to permanent list" switch, then Add
HandleAddItemAt(c, input, permanent) ==
    /\ Tick
    /\ mounted
    /\ formVersion = 2
    /\ LET r == handleAddItem(expenses, expenses[c].id, input, permanent) IN
       /\ expenses' = r.expenses
       /\ alert' = r.alert
       /\ customPending' =
              IF r.saveCustom
              THEN Append(customPending,
                          [categoryName |-> expenses[c].name, itemName |-> r.name,
                           defaultValue |-> 0])
              ELSE customPending
    /\ UNCHANGED <<formVersion, ctxVars, mounted, recordId, date, morningSales,
                   totalSales, status, isSubmitting, saveInFlight, editorVars, dashVars,
                   deleteInFlight, gasVars>>

HandleAddItem ==
    \E c \in 1..Len(expenses) : \E input \in NameTexts : \E permanent \in BOOLEAN :
        HandleAddItemAt(c, input, permanent)

\* A pending handleSaveCustomItem resolves: the context's customStructure changes,
\* and a mounted form, whose effect depends on it, runs the effect again
SaveCustomItemDone ==
    /\ Tick
    /\ customPending # <<>>
    /\ LET call == Head(customPending)
           structure == SaveCustomItem(customStructure, call.categoryName,
                                       call.itemName, call.defaultValue)
       IN  /\ customStructure' = structure
           /\ customPending' = Tail(customPending)
           /\ IF mounted
              THEN RunEffect(recordId, records, structure, FormNow)
              ELSE /\ UNCHANGED formVars
                   /\ alert' = ""
    /\ UNCHANGED <<formVersion, records, billUploadCategories, saveInFlight,
                   editorVars, dashVars,
                   deleteInFlight, gasVars>>

\* The submit button is disabled while isSubmitting
HandleSubmit ==
    /\ Tick
    /\ mounted
    /\ ~isSubmitting
    /\ \E id \in NewRecordIds : \A i \in 1..Len(records) : records[i].id # id
    /\ LET blocked == SubmitAlert(date, status, totalSales) IN
       IF blocked # ""
       THEN /\ alert' = blocked
            /\ UNCHANGED <<isSubmitting, saveInFlight>>
       ELSE /\ alert' = ""
            /\ isSubmitting' = TRUE
            /\ saveInFlight' =
                   << [record |-> NewRecord(IF recordId # "" THEN recordId
                                            ELSE FreshRecordId(records),
                                            date, morningSales, totalSales, expenses,
                                            status),
                       existingId |-> recordId,
                       status |-> status] >>
    /\ UNCHANGED <<formVersion, ctxVars, mounted, recordId, date, morningSales,
                   totalSales, expenses, status, customPending, editorVars, dashVars,
                   deleteInFlight, gasVars>>

\* handleSave resolves: the record is in the collection, then navigate(-1)
SaveSucceeds ==
    /\ Tick
    /\ saveInFlight # <<>>
    /\ records' = SaveRecord(records, saveInFlight[1].record, saveInFlight[1].existingId)
    /\ saveInFlight' = <<>>
    /\ Unmount
    /\ alert' = ""
    /\ UNCHANGED <<formVersion, customStructure, billUploadCategories, customPending, editorVars, dashVars,
                   deleteInFlight, gasVars>>

\* Mutant of SaveFails: the catch block leaves isSubmitting set
SaveFailsStaysSubmitting ==
    /\ Tick
    /\ saveInFlight # <<>>
    /\ saveInFlight' = <<>>
    /\ alert' = "Failed to save record"
    /\ UNCHANGED <<formVersion, ctxVars, formVars, customPending, editorVars, dashVars,
                   deleteInFlight, gasVars>>

\* handleSave rejects: alert, and the submit button is enabled again
SaveFails ==
    /\ Tick
    /\ saveInFlight # <<>>
    /\ saveInFlight' = <<>>
    /\ alert' = "Failed to save record"
    /\ isSubmitting' = FALSE
    /\ UNCHANGED <<formVersion, ctxVars, mounted, recordId, date, morningSales,
                   totalSales, expenses, status, customPending, editorVars, dashVars,
                   deleteInFlight, gasVars>>

\* Delete(recordId) of the context: the collection without the record of that id
DeleteRecord(recs, id) == SelectSeq(recs, LAMBDA r : r.id # id)

\* "Delete Record", shown in edit mode, with the confirm() dialog answered yes
\* (answered no, nothing happens): handleDelete is called
HandleDeleteRecord ==
    /\ Tick
    /\ mounted
    /\ recordId # ""
    /\ deleteInFlight = <<>>
    /\ deleteInFlight' = <<recordId>>
    /\ alert' = ""
    /\ UNCHANGED <<formVersion, ctxVars, formVars, saveInFlight, customPending, editorVars,
                   dashVars, gasVars>>

\* handleDelete resolves: the record is gone, then navigate('/records')
DeleteSucceeds ==
    /\ Tick
    /\ deleteInFlight # <<>>
    /\ records' = DeleteRecord(records, deleteInFlight[1])
    /\ deleteInFlight' = <<>>
    /\ Unmount
    /\ alert' = ""
    /\ UNCHANGED <<formVersion, customStructure, billUploadCategories, saveInFlight,
                   customPending, editorVars, dashVars, gasVars>>

\* handleDelete rejects: nothing catches it, the form stays as it is
DeleteFails ==
    /\ Tick
    /\ deleteInFlight # <<>>
    /\ deleteInFlight' = <<>>
    /\ alert' = ""
    /\ UNCHANGED <<formVersion, ctxVars, formVars, saveInFlight, customPending, editorVars,
                   dashVars, gasVars>>

\* The taxonomy editor's onSave, while no form is on screen
TaxonomyCommit ==
    /\ Tick
    /\ ~mounted
    /\ \E structure \in CommittedStructures :
           /\ structure # customStructure
           /\ customStructure' = structure
    /\ alert' = ""
    /\ UNCHANGED <<formVersion, records, billUploadCategories, formVars, saveInFlight,
                   customPending, editorVars, dashVars,
                   deleteInFlight, gasVars>>

Next ==
    \/ OpenNew
    \/ OpenEdit
    \/ CloseForm
    \/ SetDate
    \/ SetTotalSales
    \/ SetMorningSales
    \/ SetStatus
    \/ HandleExpenseChange
    \/ HandlePhotosChange
    \/ HandleAddItem
    \/ SaveCustomItemDone
    \/ HandleSubmit
    \/ SaveSucceeds
    \/ SaveFails
    \/ HandleDeleteRecord
    \/ DeleteSucceeds
    \/ DeleteFails
    \/ TaxonomyCommit

Spec == Init /\ [][Next]_vars

\* ---------------------------------------------------------------- ExpenseStructureManager

\* internalStructure[catName]: the items of the category with that key
ItemsOf(structure, catName) ==
    LET hit == SelectSeq(structure, LAMBDA c : c.name = catName) IN hit[1].items

\* handleAddItem of the editor: the alert it raises, and the working structure
\* and "new item" inputs it leaves
managerHandleAddItem(structure, inputs, catName) ==
    LET itemName == trim(inputs[catName]) IN
    IF itemName = <<>>
    THEN [alert |-> "", structure |-> structure, inputs |-> inputs]
    ELSE IF \E j \in 1..Len(ItemsOf(structure, catName)) :
                ItemsOf(structure, catName)[j].name = itemName
    THEN [alert |-> "Item already exists in this category", structure |-> structure,
          inputs |-> inputs]
    ELSE [alert |-> "",
          structure |->
              [c \in 1..Len(structure) |->
                  IF structure[c].name = catName
                  THEN [structure[c] EXCEPT
                           !.items = Append(@, [name |-> itemName, defaultValue |-> 0])]
                  ELSE structure[c]],
          inputs |-> [inputs EXCEPT ![catName] = <<>>]]

CategoryKeys(structure) == {structure[c].name : c \in 1..Len(structure)}

\* A key that is a canonical array index: JavaScript objects list these keys
\* first, in ascending numeric order, whenever they were inserted
IsArrayIndex(name) ==
    /\ name # <<>>
    /\ \A i \in 1..Len(name) : IsDigit(name[i])
    /\ Len(name) = 1 \/ name[1] # "0"

\* where an entry with an array-index key goes among entries already in order
RECURSIVE InsertByIndex(_, _)
InsertByIndex(sortedEntries, e) ==
    IF sortedEntries = <<>> THEN <<e>>
    ELSE IF DigitsValue(e.name, 0) < DigitsValue(Head(sortedEntries).name, 0)
    THEN <<e>> \o sortedEntries
    ELSE <<Head(sortedEntries)>> \o InsertByIndex(Tail(sortedEntries), e)

RECURSIVE SortByIndex(_)
SortByIndex(entries) ==
    IF entries = <<>> THEN <<>>
    ELSE InsertByIndex(SortByIndex(Tail(entries)), Head(entries))

\* Object.keys order of an object whose properties were inserted in this order:
\* the array-index keys ascending, then the other keys in insertion order
ObjectKeyOrder(entries) ==
    SortByIndex(SelectSeq(entries, LAMBDA e : IsArrayIndex(e.name)))
        \o SelectSeq(entries, LAMBDA e : ~IsArrayIndex(e.name))

\* Property names every object inherits from Object.prototype (one of them)
InheritedNames == {<<"c", "o", "n", "s", "t", "r", "u", "c", "t", "o", "r">>}

\* internalStructure[name] is truthy: an own key (an array, even an empty one,
\* is truthy) or an inherited property
hasProperty(structure, name) ==
    name \in CategoryKeys(structure) \/ name \in InheritedNames

\* { ...prev, [name]: items }
objectWith(structure, name, items) ==
    IF name \in CategoryKeys(structure)
    THEN [c \in 1..Len(structure) |->
             IF structure[c].name = name THEN [structure[c] EXCEPT !.items = items]
             ELSE structure[c]]
    ELSE ObjectKeyOrder(Append(structure, [name |-> name, items |-> items]))

\* newKeys.forEach(k => newStruct[k] = internalStructure[k]) on an empty object
objectFromKeys(structure, newKeys) ==
    ObjectKeyOrder([k \in 1..Len(newKeys) |->
                       [name |-> newKeys[k], items |-> ItemsOf(structure, newKeys[k])]])

\* Object.keys(internalStructure)
objectKeys(structure) == [c \in 1..Len(structure) |-> structure[c].name]

\* list.splice(index, 1) of a copy: the list without the element at index (from 0)
spliceOut(list, index) ==
    IF index < 0 \/ index >= Len(list) THEN list
    ELSE SubSeq(list, 1, index) \o SubSeq(list, index + 2, Len(list))

\* list.splice(index, 0, x) of a copy: x put at index (from 0), at the end when
\* the index is beyond it
spliceIn(list, index, x) ==
    LET at == IF index > Len(list) THEN Len(list) ELSE index IN
    SubSeq(list, 1, at) \o <<x>> \o SubSeq(list, at + 1, Len(list))

\* handleAddCategory: the alert it raises, the working structure and the input it leaves
handleAddCategory(structure, input) ==
    IF trim(input) = <<>>
    THEN [alert |-> "", structure |-> structure, input |-> input]
    ELSE IF hasProperty(structure, trim(input))
    THEN [alert |-> "Category already exists", structure |-> structure, input |-> input]
    ELSE [alert |-> "", structure |-> objectWith(structure, trim(input), <<>>),
          input |-> <<>>]

\* Mutant of handleDeleteCategory: the bill flags are left as they are
handleDeleteCategoryKeepFlags(structure, flags, catName) ==
    [structure |-> SelectSeq(structure, LAMBDA c : c.name # catName),
     flags |-> flags]

\* handleDeleteCategory: the working structure and the bill flags it leaves
handleDeleteCategory(structure, flags, catName) ==
    [structure |-> SelectSeq(structure, LAMBDA c : c.name # catName),
     flags |-> SelectSeq(flags, LAMBDA c : c # catName)]

\* Mutant of handleDeleteItem: the name is compared without regard to case
handleDeleteItemIgnoreCase(structure, catName, itemName) ==
    objectWith(structure, catName,
               SelectSeq(ItemsOf(structure, catName),
                         LAMBDA i : toLowerCase(i.name) # toLowerCase(itemName)))

\* handleDeleteItem
handleDeleteItem(structure, catName, itemName) ==
    objectWith(structure, catName,
               SelectSeq(ItemsOf(structure, catName), LAMBDA i : i.name # itemName))

\* handleDropCategory for a dragged category
handleDropCategory(structure, drag, dropIndex) ==
    LET keys == objectKeys(structure)
        draggedKey == keys[drag.index + 1]
    IN  objectFromKeys(structure, spliceIn(spliceOut(keys, drag.index), dropIndex, draggedKey))

\* handleDropItem for an item dragged within catName
handleDropItem(structure, drag, catName, dropIndex) ==
    LET items == ItemsOf(structure, catName)
        movedItem == items[drag.index + 1]
    IN  objectWith(structure, catName,
                   spliceIn(spliceOut(items, drag.index), dropIndex, movedItem))

\* the row an arrow moves to
ArrowTarget(index, direction) == IF direction = "up" THEN index - 1 ELSE index + 1

\* Mutant of moveCategory: the two arrows are taken for each other
moveCategoryInverted(structure, index, direction) ==
    LET keys == objectKeys(structure)
        newIndex == IF direction = "up" THEN index + 1 ELSE index - 1
    IN  IF newIndex < 0 \/ newIndex >= Len(keys) THEN structure
        ELSE objectFromKeys(structure,
                            spliceIn(spliceOut(keys, index), newIndex, keys[index + 1]))

\* moveCategory: the arrow buttons of a category card
moveCategory(structure, index, direction) ==
    LET keys == objectKeys(structure)
        newIndex == ArrowTarget(index, direction)
    IN  IF newIndex < 0 \/ newIndex >= Len(keys) THEN structure
        ELSE objectFromKeys(structure,
                            spliceIn(spliceOut(keys, index), newIndex, keys[index + 1]))

\* moveItem: the arrow buttons of an item row
moveItem(structure, catName, index, direction) ==
    LET items == ItemsOf(structure, catName)
        newIndex == ArrowTarget(index, direction)
    IN  IF newIndex < 0 \/ newIndex >= Len(items) THEN structure
        ELSE objectWith(structure, catName,
                        spliceIn(spliceOut(items, index), newIndex, items[index + 1]))

\* Mutant of toggleBillUpload: the name is added whether it is there or not
toggleBillUploadAlwaysAdds(prev, catName) == Append(prev, catName)

\* toggleBillUpload: the bill flags it leaves
toggleBillUpload(prev, catName) ==
    IF ArrayIncludes(prev, catName)
    THEN SelectSeq(prev, LAMBDA c : c # catName)
    ELSE Append(prev, catName)

\* onChange of the default-value input of an item: the working structure it leaves
setDefaultValue(structure, catName, itemName, text) ==
    LET val == parseFloat(text)
        items == ItemsOf(structure, catName)
    IN  objectWith(structure, catName,
                   [j \in 1..Len(items) |->
                       IF items[j].name = itemName
                       THEN [items[j] EXCEPT
                                !.defaultValue = IF val.k = "nan" THEN 0 ELSE val.v]
                       ELSE items[j]])

\* Mutant of saveChanges: the bill flags handed over are those the editor was
\* opened with
saveChangesInitialFlags(structure, flags) ==
    [newStructure |-> structure, newBillFlags |-> billUploadCategories]

\* saveChanges: the arguments of its onSave call
saveChanges(structure, flags) == [newStructure |-> structure, newBillFlags |-> flags]

\* Taxonomies and bill-upload lists the editor can be opened on
EditorProps ==
    { [structure |-> InitStructure, flags |-> InitBillUploadCategories],
      [structure |->
           << [name |-> Veg, items |-> << [name |-> Rice, defaultValue |-> 5],
                                          [name |-> Oil, defaultValue |-> 0],
                                          [name |-> Salt, defaultValue |-> 0] >>],
              [name |-> Staff, items |-> <<>>],
              [name |-> Labor, items |-> << [name |-> Oil, defaultValue |-> 0] >>] >>,
       flags |-> <<Veg, Labor>>] }

\* Texts typed into the "new category" input
CategoryTexts ==
    {<<" ">>, <<" ", "S">>, Cafe, Seven,
     <<"c", "o", "n", "s", "t", "r", "u", "c", "t", "o", "r">>}

\* Row positions a drop can name
RowIndexes == 0..Cardinality(EditorCategoryNames)

\* One more editor event, within the explored session length
EditorTick ==
    /\ events < MaxEdits
    /\ events' = events + 1

\* What the editor leaves alone
nonEditorVars ==
    <<formVersion, ctxVars, formVars, saveInFlight, customPending, deleteInFlight, dashVars,
      gasVars>>

\* The inputs and buttons of the page respond: no confirmation modal covers them
\* and no drag is under way
EditorFree == deleteConfirmation = <<>> /\ dragItem = <<>>

\* Typing into the "new item" input of a category
ManagerSetNewItemName ==
    /\ EditorTick
    /\ EditorFree
    /\ \E catName \in CategoryKeys(internalStructure) :
         \E text \in NameTexts \ {newItemNames[catName]} :
           newItemNames' = [newItemNames EXCEPT ![catName] = text]
    /\ alert' = ""
    /\ UNCHANGED <<nonEditorVars, internalStructure, billFlags, newCategoryName,
                   deleteConfirmation, dragItem>>

\* "Add" (or Enter) in the "new item" row of category catName
ManagerHandleAddItem(catName) ==
    /\ EditorTick
    /\ EditorFree
    /\ catName \in CategoryKeys(internalStructure)
    /\ LET r == managerHandleAddItem(internalStructure, newItemNames, catName) IN
       /\ alert' = r.alert
       /\ internalStructure' = r.structure
       /\ newItemNames' = r.inputs
    /\ UNCHANGED <<nonEditorVars, billFlags, newCategoryName, deleteConfirmation, dragItem>>

ManagerAddItem == \E catName \in EditorCategoryNames : ManagerHandleAddItem(catName)

\* Typing into the "new category" input
ManagerSetNewCategoryName ==
    /\ EditorTick
    /\ EditorFree
    /\ \E text \in CategoryTexts \ {newCategoryName} : newCategoryName' = text
    /\ alert' = ""
    /\ UNCHANGED <<nonEditorVars, internalStructure, newItemNames, billFlags,
                   deleteConfirmation, dragItem>>

\* The "+" button of the "new category" row, enabled for a non-blank input
ManagerAddCategory ==
    /\ EditorTick
    /\ EditorFree
    /\ trim(newCategoryName) # <<>>
    /\ LET r == handleAddCategory(internalStructure, newCategoryName) IN
       /\ alert' = r.alert
       /\ internalStructure' = r.structure
       /\ newCategoryName' = r.input
    /\ UNCHANGED <<nonEditorVars, newItemNames, billFlags, deleteConfirmation, dragItem>>

\* The bin of a category or of an item opens the confirmation modal
ManagerAskDelete ==
    /\ EditorTick
    /\ EditorFree
    /\ \E c \in 1..Len(internalStructure) :
         \/ deleteConfirmation' =
              <<[type |-> "category", catName |-> internalStructure[c].name,
                 itemName |-> <<>>]>>
         \/ \E j \in 1..Len(internalStructure[c].items) :
              deleteConfirmation' =
                <<[type |-> "item", catName |-> internalStructure[c].name,
                   itemName |-> internalStructure[c].items[j].name]>>
    /\ alert' = ""
    /\ UNCHANGED <<nonEditorVars, internalStructure, newItemNames, billFlags,
                   newCategoryName, dragItem>>

\* "Cancel" in the confirmation modal
ManagerCancelDelete ==
    /\ EditorTick
    /\ deleteConfirmation # <<>>
    /\ deleteConfirmation' = <<>>
    /\ alert' = ""
    /\ UNCHANGED <<nonEditorVars, internalStructure, newItemNames, billFlags,
                   newCategoryName, dragItem>>

\* "Delete" in the confirmation modal
ManagerConfirmDelete ==
    /\ EditorTick
    /\ deleteConfirmation # <<>>
    /\ LET asked == deleteConfirmation[1] IN
       IF asked.type = "category"
       THEN LET r == handleDeleteCategory(internalStructure, billFlags, asked.catName) IN
            /\ internalStructure' = r.structure
            /\ billFlags' = r.flags
       ELSE /\ internalStructure' =
                 handleDeleteItem(internalStructure, asked.catName, asked.itemName)
            /\ billFlags' = billFlags
    /\ deleteConfirmation' = <<>>
    /\ alert' = ""
    /\ UNCHANGED <<nonEditorVars, newItemNames, newCategoryName, dragItem>>

\* handleDragStartCategory and handleDragStartItem
ManagerDragStart ==
    /\ EditorTick
    /\ EditorFree
    /\ \E c \in 1..Len(internalStructure) :
         \/ dragItem' = <<[type |-> "category", catName |-> internalStructure[c].name,
                           index |-> c - 1]>>
         \/ \E j \in 1..Len(internalStructure[c].items) :
              dragItem' = <<[type |-> "item", catName |-> internalStructure[c].name,
                             index |-> j - 1]>>
    /\ alert' = ""
    /\ UNCHANGED <<nonEditorVars, internalStructure, newItemNames, billFlags,
                   newCategoryName, deleteConfirmation>>

\* handleDragEnd: the drag is given up or ends outside a drop target
ManagerDragEnd ==
    /\ EditorTick
    /\ dragItem # <<>>
    /\ dragItem' = <<>>
    /\ alert' = ""
    /\ UNCHANGED <<nonEditorVars, internalStructure, newItemNames, billFlags,
                   newCategoryName, deleteConfirmation>>

\* A dragged category is dropped on the category card at dropIndex
ManagerDropCategoryAt(dropIndex) ==
    /\ EditorTick
    /\ dragItem # <<>>
    /\ dragItem[1].type = "category"
    /\ dropIndex \in 0..(Len(internalStructure) - 1)
    /\ internalStructure' = handleDropCategory(internalStructure, dragItem[1], dropIndex)
    /\ dragItem' = <<>>
    /\ alert' = ""
    /\ UNCHANGED <<nonEditorVars, newItemNames, billFlags, newCategoryName,
                   deleteConfirmation>>

ManagerDropCategory == \E dropIndex \in RowIndexes : ManagerDropCategoryAt(dropIndex)

\* A dragged item is dropped on the row at dropIndex of its own category
ManagerDropItemAt(dropIndex) ==
    /\ EditorTick
    /\ dragItem # <<>>
    /\ dragItem[1].type = "item"
    /\ dropIndex \in 0..(Len(ItemsOf(internalStructure, dragItem[1].catName)) - 1)
    /\ internalStructure' =
           handleDropItem(internalStructure, dragItem[1], dragItem[1].catName, dropIndex)
    /\ dragItem' = <<>>
    /\ alert' = ""
    /\ UNCHANGED <<nonEditorVars, newItemNames, billFlags, newCategoryName,
                   deleteConfirmation>>

ManagerDropItem == \E dropIndex \in RowIndexes : ManagerDropItemAt(dropIndex)

Directions == {"up", "down"}

\* An arrow of the category card at index; the arrow that points off the list
\* is disabled
ManagerMoveCategoryAt(index, direction) ==
    /\ EditorTick
    /\ EditorFree
    /\ index \in 0..(Len(internalStructure) - 1)
    /\ ArrowTarget(index, direction) \in 0..(Len(internalStructure) - 1)
    /\ internalStructure' = moveCategory(internalStructure, index, direction)
    /\ alert' = ""
    /\ UNCHANGED <<nonEditorVars, newItemNames, billFlags, newCategoryName,
                   deleteConfirmation, dragItem>>

ManagerMoveCategory ==
    \E index \in RowIndexes : \E direction \in Directions :
        ManagerMoveCategoryAt(index, direction)

\* An arrow of the item row at index of category catName
ManagerMoveItemAt(catName, index, direction) ==
    /\ EditorTick
    /\ EditorFree
    /\ catName \in CategoryKeys(internalStructure)
    /\ index \in 0..(Len(ItemsOf(internalStructure, catName)) - 1)
    /\ ArrowTarget(index, direction) \in 0..(Len(ItemsOf(internalStructure, catName)) - 1)
    /\ internalStructure' = moveItem(internalStructure, catName, index, direction)
    /\ alert' = ""
    /\ UNCHANGED <<nonEditorVars, newItemNames, billFlags, newCategoryName,
                   deleteConfirmation, dragItem>>

ManagerMoveItem ==
    \E catName \in EditorCategoryNames : \E index \in RowIndexes :
        \E direction \in Directions : ManagerMoveItemAt(catName, index, direction)

\* The "Enable Bill Photo Uploads" checkbox of a category
ManagerToggleBillUpload ==
    /\ EditorTick
    /\ EditorFree
    /\ \E catName \in CategoryKeys(internalStructure) :
           billFlags' = toggleBillUpload(billFlags, catName)
    /\ alert' = ""
    /\ UNCHANGED <<nonEditorVars, internalStructure, newItemNames, newCategoryName,
                   deleteConfirmation, dragItem>>

\* Typing into the default-value input of an item
ManagerSetDefaultValue ==
    /\ EditorTick
    /\ EditorFree
    /\ \E c \in 1..Len(internalStructure) : \E j \in 1..Len(internalStructure[c].items) :
         \E text \in SalesTexts :
           /\ internalStructure' =
                  setDefaultValue(internalStructure, internalStructure[c].name,
                                  internalStructure[c].items[j].name, text)
           /\ internalStructure' # internalStructure
    /\ alert' = ""
    /\ UNCHANGED <<nonEditorVars, newItemNames, billFlags, newCategoryName,
                   deleteConfirmation, dragItem>>

\* "Save Configuration": onSave hands the working copy to the owner of the
\* Taxonomy, which keeps it
ManagerSaveChanges ==
    /\ EditorTick
    /\ EditorFree
    /\ LET call == saveChanges(internalStructure, billFlags) IN
       /\ customStructure' = call.newStructure
       /\ billUploadCategories' = call.newBillFlags
    /\ alert' = ""
    /\ UNCHANGED <<formVersion, records, formVars, saveInFlight, customPending,
                   deleteInFlight, dashVars, editorVars, gasVars>>

ManagerNext ==
    \/ ManagerSetNewItemName
    \/ ManagerAddItem
    \/ ManagerSetNewCategoryName
    \/ ManagerAddCategory
    \/ ManagerAskDelete
    \/ ManagerCancelDelete
    \/ ManagerConfirmDelete
    \/ ManagerDragStart
    \/ ManagerDragEnd
    \/ ManagerDropCategory
    \/ ManagerDropItem
    \/ ManagerMoveCategory
    \/ ManagerMoveItem
    \/ ManagerToggleBillUpload
    \/ ManagerSetDefaultValue
    \/ ManagerSaveChanges

\* An editor is on screen and nothing else
InitManager ==
    /\ formVersion = 2
    /\ CtxInit
    /\ FormInit
    /\ DashboardIdle
    /\ GasIdle
    /\ \E props \in EditorProps : EditorMount(props.structure, props.flags)

SpecManager == InitManager /\ [][ManagerNext]_vars

\* ---------------------------------------------------------------- Dashboard: the memos

nonDashVars ==
    <<formVersion, ctxVars, formVars, alert, saveInFlight, customPending, deleteInFlight,
      events, editorVars, gasVars>>

RenderDashboardData ==
    /\ ~dashboardData.done
    /\ dashboardData' = Computed(computeDashboardData(sortedRecords, allSortedRecords,
                                                      foodCostCategories, now, tz))
    /\ UNCHANGED <<nonDashVars, dashInputs, chartData, inventoryAlerts>>

RenderChartData ==
    /\ ~chartData.done
    /\ chartData' = Computed(computeChartData(allSortedRecords))
    /\ UNCHANGED <<nonDashVars, dashInputs, dashboardData, inventoryAlerts>>

RenderInventoryAlerts ==
    /\ ~inventoryAlerts.done
    /\ inventoryAlerts' = Computed(computeInventoryAlerts(allSortedRecords, trackedItems, now))
    /\ UNCHANGED <<nonDashVars, dashInputs, dashboardData, chartData>>

DashboardNext ==
    \/ RenderDashboardData
    \/ RenderChartData
    \/ RenderInventoryAlerts

SpecDashboard == InitDashboard /\ [][DashboardNext]_vars

\* ---------------------------------------------------------------- claims

InFlight == saveInFlight # <<>>

\* C1: every record handed to handleSave has isClosed = (status = CLOSED) and
\* isCompleted = (status = COMPLETED or CLOSED) for the status selected when the
\* form was submitted, and no stored record is closed without being completed.
C1_SavedStatusEncoding ==
    /\ \A i \in 1..Len(saveInFlight) :
         LET call == saveInFlight[i] IN
         /\ call.record.isClosed = (call.status = "CLOSED")
         /\ call.record.isCompleted \in {"true", "false"}
         /\ (call.record.isCompleted = "true") = (call.status \in {"COMPLETED", "CLOSED"})
    /\ \A i \in 1..Len(records) : records[i].isClosed => records[i].isCompleted = "true"

\* A record saved as CLOSED is in the collection
C1_Witness ==
    \E i \in 1..Len(records) : records[i].isClosed /\ records[i].isCompleted = "true"

\* C2: whenever the effect loads a stored record that is not closed, the status
\* is IN_PROGRESS if isCompleted is false and COMPLETED otherwise (absent or true).
C2_LegacyDecodesCompleted ==
    [][(~mounted /\ mounted' /\ recordId' # "")
        => LET record == FindRecord(records, recordId')[1] IN
           ~record.isClosed
             => status' = IF record.isCompleted = "false" THEN "IN_PROGRESS"
                          ELSE "COMPLETED"]_vars

SubmitInvalid == date = <<>> \/ (status = "COMPLETED" /\ totalSales = <<>>)

\* C3: a submit calls handleSave only if the date is set and the status is not
\* COMPLETED with an empty Total Sales; a submit that fails either validation
\* calls nothing, leaves isSubmitting false, stays on the form and changes no field.
C3_ValidationBlocksSave ==
    [][HandleSubmit
        => /\ (saveInFlight' # saveInFlight) => ~SubmitInvalid
           /\ SubmitInvalid
                => /\ saveInFlight' = saveInFlight
                   /\ ~isSubmitting'
                   /\ alert' # ""
                   /\ UNCHANGED <<formVars, ctxVars, customPending>>]_vars

\* A submit in status COMPLETED was refused for want of Total Sales
C3_Witness ==
    /\ alert = "Total Sales is required to mark as Completed"
    /\ mounted /\ status = "COMPLETED" /\ totalSales = <<>>
    /\ ~isSubmitting /\ ~InFlight

\* C4: with a date, a submit in status CLOSED passes validation whatever the sales
\* inputs hold, and the record handed to handleSave has isCompleted = true.
C4_ClosedAlwaysSaves ==
    [][(HandleSubmit /\ status = "CLOSED" /\ date # <<>>)
        => /\ alert' = ""
           /\ isSubmitting'
           /\ saveInFlight' # <<>>
           /\ saveInFlight'[1].record.isClosed
           /\ saveInFlight'[1].record.isCompleted = "true"]_vars

\* A CLOSED form with empty sales inputs has been submitted and is being saved
C4_Witness ==
    /\ InFlight /\ isSubmitting
    /\ saveInFlight[1].status = "CLOSED"
    /\ status = "CLOSED" /\ totalSales = <<>> /\ morningSales = <<>>

\* C5: within one editing session the status changes only by one of the three
\* status buttons.
C5_StatusOnlyByButtons ==
    [][(mounted /\ mounted' /\ status' # status) => SetStatus]_vars

\* C6: what was typed into the sales inputs before CLOSED was selected does not
\* reach the saved record. A new-record session in which nothing was typed hands
\* over totalSales = 0 and morningSales = 0, so every new record saved as CLOSED
\* has to carry these values.
C6_ClosedIgnoresSales ==
    \A i \in 1..Len(saveInFlight) :
        (saveInFlight[i].status = "CLOSED" /\ saveInFlight[i].existingId = "")
            => /\ saveInFlight[i].record.totalSales = 0
               /\ saveInFlight[i].record.morningSales = 0

IsNumber(a) == a.k = "num"

\* The tree shows that snapshot: same categories and items in the same order,
\* same photos, and the same amount wherever the snapshot holds a number
ShowsSnapshot(tree, snapshot) ==
    /\ Len(tree) = Len(snapshot)
    /\ \A c \in 1..Len(snapshot) :
         /\ tree[c].id = snapshot[c].id
         /\ tree[c].name = snapshot[c].name
         /\ Len(tree[c].items) = Len(snapshot[c].items)
         /\ \A j \in 1..Len(snapshot[c].items) :
              LET shown == tree[c].items[j]
                  kept == snapshot[c].items[j]
              IN  /\ shown.id = kept.id
                  /\ shown.name = kept.name
                  /\ shown.billPhotos = kept.billPhotos
                  /\ IF IsNumber(kept.amount) THEN shown.amount = kept.amount
                     ELSE ~IsNumber(shown.amount)

\* C7: a change of the Taxonomy changes no stored record, and whenever the form
\* is (re)initialised in edit mode its tree is the stored record's own snapshot.
C7_TaxonomyLeavesRecords ==
    [][/\ (customStructure' # customStructure) => records' = records
       /\ (mounted' /\ recordId' # "" /\ (~mounted \/ customStructure' # customStructure))
            => ShowsSnapshot(expenses', FindRecord(records', recordId')[1].expenses)]_vars

\* After the Taxonomy was changed, the legacy record is open and shows its own tree
C7_Witness ==
    /\ mounted /\ recordId = "r1"
    /\ customStructure # InitStructure
    /\ records = InitRecords
    /\ ShowsSnapshot(expenses, InitRecords[1].expenses)
    /\ expenses # generateNewRecordExpenses(customStructure)

NumericText(s) == s # <<>> /\ \A i \in 1..Len(s) : IsDigit(s[i])

\* applyAmountEdit as the claim describes it
ClaimedAmount(previous, text) ==
    IF text = <<>> THEN Num(0)
    ELSE IF NumericText(text) THEN Num(DigitsValue(text, 0))
    ELSE previous

NameTakenIn(items, name) ==
    \E j \in 1..Len(items) : toLowerCase(items[j].name) = toLowerCase(name)

\* C9: the editor's addItem rejects a name that an item of the category already
\* has under case-insensitive comparison, leaving the working structure as it is;
\* otherwise it appends the item, with defaultValue 0, at the end of that category
\* and leaves the other categories as they are.
C9_ManagerAddItemCaseInsensitive ==
    [][\A catName \in EditorCategoryNames :
         (ManagerHandleAddItem(catName) /\ trim(newItemNames[catName]) # <<>>)
           => LET name == trim(newItemNames[catName]) IN
              IF NameTakenIn(ItemsOf(internalStructure, catName), name)
              THEN internalStructure' = internalStructure /\ alert' # ""
              ELSE /\ ItemsOf(internalStructure', catName) =
                        Append(ItemsOf(internalStructure, catName),
                               [name |-> name, defaultValue |-> 0])
                   /\ Len(internalStructure') = Len(internalStructure)
                   /\ \A c \in 1..Len(internalStructure) :
                        internalStructure[c].name # catName
                          => internalStructure'[c] = internalStructure[c]]_vars

ItemIds(tree) ==
    UNION {{tree[c].items[j].id : j \in 1..Len(tree[c].items)} : c \in 1..Len(tree)}

\* no two items of one category share a name, compared case-insensitively
NamesUnique(tree) ==
    \A c \in 1..Len(tree) : \A j, k \in 1..Len(tree[c].items) :
        toLowerCase(tree[c].items[j].name) = toLowerCase(tree[c].items[k].name) => j = k

\* C10: the form's addItem rejects a trimmed name that an item of the category
\* already has (case-insensitively): the tree is unchanged and handleSaveCustomItem
\* is not called; otherwise exactly one item with amount 0 and no photo is appended
\* to that category. Item names that are unique stay unique.
C10_FormAddItemRejectsDuplicates ==
    [][\A c \in 1..Len(expenses) : \A input \in NameTexts : \A permanent \in BOOLEAN :
         (HandleAddItemAt(c, input, permanent) /\ trim(input) # <<>>)
           => LET name == trim(input) IN
              /\ IF NameTakenIn(expenses[c].items, name)
                 THEN /\ expenses' = expenses
                      /\ customPending' = customPending
                      /\ alert' # ""
                 ELSE /\ Len(expenses') = Len(expenses)
                      /\ \A d \in 1..Len(expenses) : d # c => expenses'[d] = expenses[d]
                      /\ Len(expenses'[c].items) = Len(expenses[c].items) + 1
                      /\ SubSeq(expenses'[c].items, 1, Len(expenses[c].items)) =
                             expenses[c].items
                      /\ LET added == expenses'[c].items[Len(expenses'[c].items)] IN
                         /\ added.name = name
                         /\ added.amount = Num(0)
                         /\ added.billPhotos = <<>>
                         /\ added.id \notin ItemIds(expenses)
              /\ NamesUnique(expenses) => NamesUnique(expenses')]_vars

\* A duplicate that differs in case only was refused after an item had been added
C10_Witness ==
    /\ mounted
    /\ alert = "Item already exists in this category."
    /\ expenses # generateNewRecordExpenses(customStructure)
    /\ NamesUnique(expenses)

\* C18: addCategory with a non-blank name refuses a name, trimmed, that a category
\* already has and leaves the working structure as it is; otherwise it adds an
\* empty category behind all the others, which keep their places and their items.
C18_AddCategoryAppendsOrRejects ==
    [][ManagerAddCategory
        => LET name == trim(newCategoryName) IN
           IF name \in CategoryKeys(internalStructure)
           THEN internalStructure' = internalStructure /\ alert' # ""
           ELSE internalStructure' =
                    Append(internalStructure, [name |-> name, items |-> <<>>])]_vars

\* the list without its element at position i (from 1)
Removed(list, i) ==
    [k \in 1..(Len(list) - 1) |-> IF k < i THEN list[k] ELSE list[k + 1]]

\* C19: deleteCategory removes the category with its items and its bill flag and
\* leaves the other categories, their order and the other flags as they are; a
\* category disappears only by the confirmation of a modal opened for it.
C19_DeleteCategoryFrame ==
    [][/\ (ManagerConfirmDelete /\ deleteConfirmation[1].type = "category")
            => LET catName == deleteConfirmation[1].catName IN
               /\ catName \notin CategoryKeys(internalStructure')
               /\ \E c \in 1..Len(internalStructure) :
                    /\ internalStructure[c].name = catName
                    /\ internalStructure' = Removed(internalStructure, c)
               /\ \A f \in 1..Len(billFlags') : billFlags'[f] # catName
               /\ billFlags' = SelectSeq(billFlags, LAMBDA f : f # catName)
       /\ ~(CategoryKeys(internalStructure) \subseteq CategoryKeys(internalStructure'))
            => /\ deleteConfirmation # <<>>
               /\ deleteConfirmation[1].type = "category"
               /\ CategoryKeys(internalStructure) \ CategoryKeys(internalStructure')
                      = {deleteConfirmation[1].catName}
               /\ deleteConfirmation' = <<>>]_vars

\* The first category, with three items and a bill flag, was deleted: the other
\* two categories and the other flag are left
C19_Witness ==
    /\ objectKeys(internalStructure) = <<Staff, Labor>>
    /\ ItemsOf(internalStructure, Labor) # <<>>
    /\ billFlags = <<Labor>>
    /\ deleteConfirmation = <<>>

\* C20: a drop with valid positions from and to gives the same elements with the
\* moved one at position to and the others in their former order; a drop of a
\* category changes no item list, a drop of an item no other category.
C20_DropMovesOneElement ==
    [][/\ \A to \in RowIndexes :
            ManagerDropCategoryAt(to)
              => LET from == dragItem[1].index
                     keys == objectKeys(internalStructure)
                     after == objectKeys(internalStructure')
                 IN  /\ Len(after) = Len(keys)
                     /\ after[to + 1] = keys[from + 1]
                     /\ Removed(after, to + 1) = Removed(keys, from + 1)
                     /\ \A k \in 1..Len(keys) :
                          ItemsOf(internalStructure', keys[k]) =
                              ItemsOf(internalStructure, keys[k])
       /\ \A to \in RowIndexes :
            ManagerDropItemAt(to)
              => LET from == dragItem[1].index
                     catName == dragItem[1].catName
                     items == ItemsOf(internalStructure, catName)
                     after == ItemsOf(internalStructure', catName)
                 IN  /\ Len(after) = Len(items)
                     /\ after[to + 1] = items[from + 1]
                     /\ Removed(after, to + 1) = Removed(items, from + 1)
                     /\ objectKeys(internalStructure') = objectKeys(internalStructure)
                     /\ \A k \in 1..Len(internalStructure) :
                          internalStructure[k].name # catName
                            => internalStructure'[k] = internalStructure[k]]_vars

\* the items of a tree, as pairs of positions
ItemPositions(tree) ==
    UNION {{<<c, j>> : j \in 1..Len(tree[c].items)} : c \in 1..Len(tree)}

\* sum of the amounts that are numbers over the items at these positions
RECURSIVE SumAt(_, _)
SumAt(tree, S) ==
    IF S = {} THEN 0
    ELSE LET pos == CHOOSE x \in S : TRUE
             a == tree[pos[1]].items[pos[2]].amount
         IN  (IF IsNumber(a) THEN a.v ELSE 0) + SumAt(tree, S \ {pos})

\* C17: the total the form shows is the sum of the amounts of all items of all
\* categories, an amount that is no number counting 0; the profit is the parsed
\* Total Sales (0 for the empty input) less that total, below 0 when it is.
C17_FormTotals ==
    mounted
        => /\ currentTotalExpenses(expenses) = SumAt(expenses, ItemPositions(expenses))
           /\ currentProfit(totalSales, currentTotalExpenses(expenses)) =
                (IF totalSales = <<>> THEN 0 ELSE DigitsValue(totalSales, 0))
                    - SumAt(expenses, ItemPositions(expenses))

\* The form shows a loss, and one of its amounts is not a number
C17_Witness ==
    /\ mounted
    /\ \E pos \in ItemPositions(expenses) :
         ~IsNumber(expenses[pos[1]].items[pos[2]].amount)
    /\ currentTotalExpenses(expenses) > 0
    /\ currentProfit(totalSales, currentTotalExpenses(expenses)) < 0

\* ---------------------------------------------------------------- claims on the Dashboard

Never == 0 - 1

\* C11: in the list of inventory alerts every never-purchased item comes before
\* every purchased one, and the purchased ones are in non-increasing order of daysAgo.
C11_AlertsNeverFirstThenDescending ==
    inventoryAlerts.done
        => \A i, j \in 1..Len(inventoryAlerts.value) :
             i < j =>
               LET a == inventoryAlerts.value[i]
                   b == inventoryAlerts.value[j]
               IN  /\ b.daysAgo = Never => a.daysAgo = Never
                   /\ (a.daysAgo # Never /\ b.daysAgo # Never) => a.daysAgo >= b.daysAgo

\* the item has a positive amount in this record
HasPositive(r, itemName) ==
    \E c \in 1..Len(r.expenses) : \E j \in 1..Len(r.expenses[c].items) :
        /\ r.expenses[c].items[j].name = itemName
        /\ IsNumber(r.expenses[c].items[j].amount)
        /\ r.expenses[c].items[j].amount.v >= 1

\* whole days between two calendar dates
WholeDaysBetween(a, b) == Abs(DaysFromCivil(a) - DaysFromCivil(b))

\* what the inventory watch has to report for the item
ExpectedDaysAgo(itemName) ==
    LET hits == {i \in 1..Len(allSortedRecords) : HasPositive(allSortedRecords[i], itemName)}
    IN  IF hits = {} THEN Never
        ELSE LET first == CHOOSE i \in hits : \A k \in hits : i <= k
             IN  WholeDaysBetween(now.date, allSortedRecords[first].date)

\* C12: for every tracked item the inventory watch reports the whole days between
\* today and the date of the first record, newest first, that holds the item with
\* a positive amount, and -1 exactly when there is no such record.
C12_AlertsReportWholeDays ==
    inventoryAlerts.done
        => /\ Len(inventoryAlerts.value) = Len(trackedItems)
           /\ \A t \in 1..Len(trackedItems) :
                \E i \in 1..Len(inventoryAlerts.value) :
                    /\ inventoryAlerts.value[i].name = trackedItems[t]
                    /\ inventoryAlerts.value[i].daysAgo = ExpectedDaysAgo(trackedItems[t])
           /\ \A i \in 1..Len(inventoryAlerts.value) :
                LET a == inventoryAlerts.value[i] IN
                /\ a.daysAgo = ExpectedDaysAgo(a.name)
                /\ a.daysAgo >= Never
                /\ (a.daysAgo = Never) <=>
                     ~\E k \in 1..Len(allSortedRecords) :
                          HasPositive(allSortedRecords[k], a.name)

\* Rice was last bought on 2024-03-05 (the entry of 2024-03-10 holds it with
\* amount 0), Oil today, Salt never: 5 days, 0 days and the sentinel
C12_Witness ==
    /\ inventoryAlerts.done
    /\ now.date = <<2024, 3, 10>>
    /\ trackedItems = <<Salt, Rice, Oil>>
    /\ \E i \in 1..Len(allSortedRecords) :
         /\ allSortedRecords[i].date = <<2024, 3, 10>>
         /\ ~HasPositive(allSortedRecords[i], Rice)
    /\ \E i, j, k \in 1..Len(inventoryAlerts.value) :
         /\ inventoryAlerts.value[i] = [name |-> Rice, daysAgo |-> 5]
         /\ inventoryAlerts.value[j] = [name |-> Oil, daysAgo |-> 0]
         /\ inventoryAlerts.value[k] = [name |-> Salt, daysAgo |-> Never]

\* positions of the displayed records that are not closed and dated within the
\* month of the clock, both ends included
InMonth ==
    LET first == <<now.date[1], now.date[2], 1>>
        last == <<now.date[1], now.date[2], DaysInMonth(now.date[1], now.date[2])>>
    IN  {i \in 1..Len(sortedRecords) :
            /\ ~sortedRecords[i].isClosed
            /\ DaysFromCivil(first) <= DaysFromCivil(sortedRecords[i].date)
            /\ DaysFromCivil(sortedRecords[i].date) <= DaysFromCivil(last)}

RECURSIVE SalesOver(_)
SalesOver(S) ==
    IF S = {} THEN 0
    ELSE LET i == CHOOSE x \in S : TRUE IN sortedRecords[i].totalSales + SalesOver(S \ {i})

RECURSIVE SpentOver(_)
SpentOver(S) ==
    IF S = {} THEN 0
    ELSE LET i == CHOOSE x \in S : TRUE
         IN  calculateTotalExpenses(sortedRecords[i]) + SpentOver(S \ {i})

RECURSIVE CategorySumOver(_, _)
CategorySumOver(S, names) ==
    IF S = {} THEN 0
    ELSE LET i == CHOOSE x \in S : TRUE
             tree == sortedRecords[i].expenses
         IN  SumSeq([c \in 1..Len(tree) |->
                        IF tree[c].name \in names THEN SumAmounts(tree[c].items) ELSE 0])
             + CategorySumOver(S \ {i}, names)

FoodNames == {foodCostCategories[i] : i \in 1..Len(foodCostCategories)}
LabourNames == {Labor}

\* categorySum / totalSales * 100, and 0 when totalSales is 0
ClaimedRatio(categorySum, monthSales) ==
    IF monthSales # 0 THEN Rat(categorySum * 100, monthSales) ELSE RatOfInt(0)

\* C14: each cost ratio is categorySum / totalSales * 100 when the month's total
\* sales are not zero and 0 when they are zero; over no record at all the sales,
\* the expenses and every ratio are 0.
C14_CostRatios ==
    dashboardData.done
        => /\ dashboardData.value.foodCostPct =
                ClaimedRatio(CategorySumOver(InMonth, FoodNames), SalesOver(InMonth))
           /\ dashboardData.value.laborCostPct =
                ClaimedRatio(CategorySumOver(InMonth, LabourNames), SalesOver(InMonth))
           /\ sortedRecords = <<>>
                => /\ dashboardData.value.totalSales = 0
                   /\ dashboardData.value.totalExpenses = 0
                   /\ dashboardData.value.foodCostPct = RatOfInt(0)
                   /\ dashboardData.value.laborCostPct = RatOfInt(0)

\* positions of the records, among all, that are not closed and dated in the
\* calendar month before the month of the clock
InPriorMonth ==
    LET y == IF now.date[2] = 1 THEN now.date[1] - 1 ELSE now.date[1]
        m == IF now.date[2] = 1 THEN 12 ELSE now.date[2] - 1
    IN  {i \in 1..Len(allSortedRecords) :
            /\ ~allSortedRecords[i].isClosed
            /\ allSortedRecords[i].date[1] = y
            /\ allSortedRecords[i].date[2] = m}

RECURSIVE ProfitOfAll(_)
ProfitOfAll(S) ==
    IF S = {} THEN 0
    ELSE LET i == CHOOSE x \in S : TRUE
         IN  allSortedRecords[i].totalSales - calculateTotalExpenses(allSortedRecords[i])
             + ProfitOfAll(S \ {i})

\* sum of the profits over the number of records, 0 for no record
AverageProfit(sum, count) == IF count = 0 THEN RatOfInt(0) ELSE Rat(sum, count)

\* (current - prior) / |prior| * 100, and 0 when prior is 0
ClaimedDelta(current, prior) ==
    IF prior.n = 0 THEN RatOfInt(0)
    ELSE Rat((current.n * prior.d - prior.n * current.d) * 100 * prior.d,
             current.d * prior.d * Abs(prior.n))

\* C15: the month-over-month delta is (current - prior) / |prior| * 100, and 0 for
\* a prior average of 0, each average being the profit of the non-closed records
\* of that month over their number (0 for a month without such a record).
C15_MonthOverMonthDelta ==
    dashboardData.done
        => dashboardData.value.diffPercent =
             ClaimedDelta(
                 AverageProfit(SalesOver(InMonth) - SpentOver(InMonth), Cardinality(InMonth)),
                 AverageProfit(ProfitOfAll(InPriorMonth), Cardinality(InPriorMonth)))

Min(a, b) == IF a < b THEN a ELSE b

\* C16: the trend series holds the first min(window, n) records of the collection,
\* oldest first, one point per record with its sales, its total expenses and
\* their difference; a collection shorter than the window is returned whole.
C16_TrendSeries ==
    chartData.done
        => LET n == Len(allSortedRecords)
               m == Min(TrendWindow, n)
               series == chartData.value
           IN  /\ Len(series) = m
               /\ \A k \in 1..m :
                    LET r == allSortedRecords[m + 1 - k] IN
                    /\ series[k].date = r.date
                    /\ series[k].sales = r.totalSales
                    /\ series[k].expenses = SumCategories(r.expenses)
                    /\ series[k].profit = r.totalSales - SumCategories(r.expenses)
               /\ \A k \in 1..(m - 1) :
                    DaysFromCivil(series[k].date) <= DaysFromCivil(series[k + 1].date)

\* Of sixteen daily records the fourteen newest are charted, oldest first
C16_Witness ==
    /\ chartData.done
    /\ Len(allSortedRecords) = TrendWindow + 2
    /\ Len(chartData.value) = TrendWindow
    /\ chartData.value[1].date = allSortedRecords[TrendWindow].date
    /\ chartData.value[TrendWindow].date = allSortedRecords[1].date
    /\ chartData.value[1].date # chartData.value[TrendWindow].date

\* ---------------------------------------------------------------- claims on the editor's moves

\* the drag state of the row at index of a list
DragOf(type, catName, index) == [type |-> type, catName |-> catName, index |-> index]

\* C21: an arrow on the row at index i gives the order that dragging the row from
\* i and dropping it at i-1 (up) or i+1 (down) gives, for categories and for
\* items; moveCategory and moveItem called for a move past either end change
\* nothing, whatever working structure the editor holds.
C21_ArrowsAgreeWithDrop ==
    [][/\ (EditorFree /\ dragItem' = <<>> /\ deleteConfirmation' = <<>>
              /\ newItemNames' = newItemNames /\ newCategoryName' = newCategoryName
              /\ billFlags' = billFlags /\ customStructure' = customStructure)
            => /\ \A i \in 0..(Len(internalStructure) - 1) : \A d \in Directions :
                    ManagerMoveCategoryAt(i, d)
                      => internalStructure' =
                             handleDropCategory(
                                 internalStructure,
                                 DragOf("category", internalStructure[i + 1].name, i),
                                 ArrowTarget(i, d))
               /\ \A c \in 1..Len(internalStructure) :
                    \A i \in 0..(Len(internalStructure[c].items) - 1) : \A d \in Directions :
                      LET catName == internalStructure[c].name IN
                      ManagerMoveItemAt(catName, i, d)
                        => internalStructure' =
                               handleDropItem(internalStructure, DragOf("item", catName, i),
                                              catName, ArrowTarget(i, d))
       /\ internalStructure' # internalStructure
            => \A structure \in IF events = 0
                                 THEN {internalStructure, internalStructure'}
                                 ELSE {internalStructure'} :
                 /\ structure # <<>>
                      => /\ moveCategory(structure, 0, "up") = structure
                         /\ moveCategory(structure, Len(structure) - 1, "down") = structure
                 /\ \A catName \in CategoryKeys(structure) :
                      ItemsOf(structure, catName) # <<>>
                        => /\ moveItem(structure, catName, 0, "up") = structure
                           /\ moveItem(structure, catName,
                                       Len(ItemsOf(structure, catName)) - 1, "down")
                                  = structure]_vars

\* Two arrows were pressed, one of a category and one of an item: the second
\* category is now the first and the second item of Veg its first
C21_Witness ==
    /\ events = 2
    /\ objectKeys(internalStructure) = <<Staff, Veg, Labor>>
    /\ ItemsOf(internalStructure, Veg) =
           << [name |-> Oil, defaultValue |-> 0], [name |-> Rice, defaultValue |-> 5],
              [name |-> Salt, defaultValue |-> 0] >>

\* C22: a move is undone by the opposite move: for valid rows from and to, a
\* drop of the row at from on to followed by a drop of the row at to on from
\* gives back the order there was, for the categories and for the items of
\* every category.
C22_ReorderInvertible ==
    /\ \A from, to \in 0..(Len(internalStructure) - 1) :
         handleDropCategory(
             handleDropCategory(internalStructure,
                                DragOf("category", internalStructure[from + 1].name, from),
                                to),
             DragOf("category", internalStructure[from + 1].name, to), from)
           = internalStructure
    /\ \A catName \in CategoryKeys(internalStructure) :
         \A from, to \in 0..(Len(ItemsOf(internalStructure, catName)) - 1) :
           handleDropItem(
               handleDropItem(internalStructure, DragOf("item", catName, from),
                              catName, to),
               DragOf("item", catName, to), catName, from)
             = internalStructure

\* C23: when an item is added to a category, deleting the item of that name gives
\* back the working structure there was before the add; and the deletion of an
\* item takes the items of that name out of its category and leaves the other
\* items, their order and the other categories as they are.
C23_AddThenDeleteItemRestores ==
    [][/\ \A catName \in EditorCategoryNames :
            (ManagerHandleAddItem(catName) /\ internalStructure' # internalStructure)
              => handleDeleteItem(internalStructure', catName, trim(newItemNames[catName]))
                     = internalStructure
       /\ (ManagerConfirmDelete /\ deleteConfirmation[1].type = "item")
            => LET asked == deleteConfirmation[1]
                   items == ItemsOf(internalStructure, asked.catName)
               IN  /\ \E j \in 1..Len(items) :
                         /\ items[j].name = asked.itemName
                         /\ ItemsOf(internalStructure', asked.catName) = Removed(items, j)
                   /\ objectKeys(internalStructure') = objectKeys(internalStructure)
                   /\ \A c \in 1..Len(internalStructure) :
                        internalStructure[c].name # asked.catName
                          => internalStructure'[c] = internalStructure[c]]_vars

\* An item added in this session, next to the item whose name differs from its
\* name in case only, is about to be deleted
C23_Witness ==
    /\ deleteConfirmation =
           <<[type |-> "item", catName |-> Veg, itemName |-> <<"r", "i">>]>>
    /\ ItemsOf(internalStructure, Veg) =
           << [name |-> Rice, defaultValue |-> 5], [name |-> <<"r", "i">>, defaultValue |-> 0] >>

\* ---------------------------------------------------------------- claims on the editor's commit

\* C24: no operation of the editor but saveChanges changes the structure and the
\* bill-upload list the editor was given; saveChanges hands over the working
\* structure and the working bill flags as they are at that moment, and leaves
\* the working copy as it is.
C24_EditsInvisibleUntilCommit ==
    [][/\ (customStructure' # customStructure \/ billUploadCategories' # billUploadCategories)
            => /\ EditorFree
               /\ customStructure' = internalStructure
               /\ billUploadCategories' = billFlags
               /\ UNCHANGED editorVars
       /\ ManagerSaveChanges
            => /\ customStructure' = internalStructure
               /\ billUploadCategories' = billFlags]_vars

\* A changed structure and changed flags were committed, and the working copy
\* has been edited again since
C24_Witness ==
    /\ \A props \in EditorProps :
         customStructure # props.structure /\ billUploadCategories # props.flags
    /\ internalStructure # customStructure
    /\ \A c \in 1..Len(billUploadCategories) :
         billUploadCategories[c] \in CategoryKeys(customStructure)

\* the list holds no name twice
NoDuplicates(list) == \A i, j \in 1..Len(list) : list[i] = list[j] => i = j

\* C29: the bill-upload list that onSave receives names only categories of the
\* structure it receives with it, and none of them twice.
C29_SavedBillFlagsAreCategories ==
    [][ManagerSaveChanges
        => /\ \A f \in 1..Len(billUploadCategories') :
                billUploadCategories'[f] \in CategoryKeys(customStructure')
           /\ NoDuplicates(billUploadCategories')]_vars

\* Saved after a flagged category was deleted and the flag of another was set
C29_Witness ==
    /\ objectKeys(customStructure) = <<Staff, Labor>>
    /\ billUploadCategories = <<Labor, Staff>>

\* ---------------------------------------------------------------- claims on saving a record

RecordIds(recs) == {recs[i].id : i \in 1..Len(recs)}

\* C25: a submit that passes validation makes one handleSave call, while none is
\* pending: a creation under a new id when the route names no record, else the
\* replacement of the record of the route; a submit that validation blocks makes
\* none. When the call fails the form stays on screen with date, sales, status
\* and expenses as they are, isSubmitting is false again, no call is pending and
\* the collection is as it was; a submit or a failure never leaves the form.
C25_SaveOnceAndFailureKeepsForm ==
    [][/\ HandleSubmit
            => IF SubmitAlert(date, status, totalSales) = ""
               THEN /\ saveInFlight = <<>>
                    /\ Len(saveInFlight') = 1
                    /\ saveInFlight'[1].existingId = recordId
                    /\ IF recordId # ""
                       THEN saveInFlight'[1].record.id = recordId
                       ELSE saveInFlight'[1].record.id \notin RecordIds(records)
                    /\ isSubmitting' /\ mounted'
               ELSE saveInFlight' = saveInFlight /\ isSubmitting' = isSubmitting
       /\ SaveFails
            => /\ saveInFlight' = <<>>
               /\ ~isSubmitting'
               /\ records' = records
               /\ UNCHANGED <<mounted, recordId, date, morningSales, totalSales, expenses,
                              status>>
       /\ SaveSucceeds
            => /\ records' = SaveRecord(records, saveInFlight[1].record,
                                        saveInFlight[1].existingId)
               /\ ~mounted'
       /\ (mounted /\ ~mounted')
            => (CloseForm \/ SaveSucceeds \/ DeleteSucceeds \/ alert' = "Record not found")]_vars

\* A save has failed: the form is on screen with the sales that were typed, and
\* can be submitted again
C25_Witness ==
    /\ mounted
    /\ alert = "Failed to save record"
    /\ ~isSubmitting
    /\ saveInFlight = <<>>
    /\ totalSales # <<>>
    /\ records = InitRecords

\* what the form shows of a tree: names, amounts and photos, in order
Entered(tree) ==
    [c \in 1..Len(tree) |->
        [name |-> tree[c].name,
         items |-> [j \in 1..Len(tree[c].items) |->
                       [name |-> tree[c].items[j].name,
                        amount |-> tree[c].items[j].amount,
                        billPhotos |-> tree[c].items[j].billPhotos]]]]

\* the form's tree ends a category with the item of the oldest pending
\* handleSaveCustomItem call
ShowsPendingItem ==
    LET call == Head(customPending) IN
    \E c \in 1..Len(expenses) :
        /\ expenses[c].name = call.categoryName
        /\ expenses[c].items # <<>>
        /\ expenses[c].items[Len(expenses[c].items)].name = call.itemName

\* C27: when handleSaveCustomItem has updated the Taxonomy for an item the form
\* has just added, the form stays on screen and shows what it showed: the new
\* item at the end of its category, every amount and photo list, and the sales.
C27_CustomItemSaveKeepsForm ==
    [][(SaveCustomItemDone /\ mounted /\ ShowsPendingItem)
        => /\ mounted'
           /\ Entered(expenses') = Entered(expenses)
           /\ totalSales' = totalSales
           /\ morningSales' = morningSales]_vars

\* the stored record of that id
Stored(recs, id) == FindRecord(recs, id)[1]

\* C28: a record saved with the status s is loaded with the status s; and a stored
\* record without isCompleted that is loaded and submitted with the status it was
\* loaded with is written with isCompleted = true and isClosed = false.
C28_StatusRoundTrip ==
    [][/\ SaveSucceeds
            => DecodeStatus(formVersion, Stored(records', saveInFlight[1].record.id))
                   = saveInFlight[1].status
       /\ (HandleSubmit /\ saveInFlight' # saveInFlight /\ recordId \in RecordIds(records))
            => LET record == Stored(records, recordId) IN
               (record.isCompleted = "undefined" /\ ~record.isClosed
                    /\ status = DecodeStatus(formVersion, record))
                 => /\ saveInFlight'[1].record.isCompleted = "true"
                    /\ saveInFlight'[1].record.isClosed = FALSE]_vars

\* C30: at most one handleSave call is pending; while the form is on screen
\* isSubmitting is true exactly while the call is pending; no submit starts
\* while it is true; and no handleDelete call starts while the handleSave call
\* for the same record is pending.
C30_OneSaveInFlight ==
    [][/\ Len(saveInFlight) <= 1 /\ Len(saveInFlight') <= 1
       /\ mounted => (isSubmitting <=> saveInFlight # <<>>)
       /\ mounted' => (isSubmitting' <=> saveInFlight' # <<>>)
       /\ (HandleSubmit /\ saveInFlight' # saveInFlight) => ~isSubmitting
       /\ HandleDeleteRecord
            => ~(saveInFlight # <<>> /\ saveInFlight[1].existingId = recordId)]_vars

\* ---------------------------------------------------------------- gas ledger

\* Ledger sessions are explored up to this many events
MaxGasEvents == 5

\* the ceiling of currentStock: the cylinders that are not in the bank in use
GasCeiling(state) == state.totalCylinders - state.cylindersPerBank

\* Mutant of swap: the stock is not looked at
swapUnchecked(state, count) ==
    [error |-> "",
     state |-> [state EXCEPT !.currentStock = @ - count, !.emptyCylinders = @ + count]]

\* swap(count): the error it reports and the state it leaves
swap(state, count) ==
    IF count > state.currentStock
    THEN [error |-> "InsufficientStock", state |-> state]
    ELSE [error |-> "",
          state |-> [state EXCEPT !.currentStock = @ - count, !.emptyCylinders = @ + count]]

\* refill(count): the error it reports and the state it leaves
refill(state, count) ==
    IF count > state.emptyCylinders
    THEN [error |-> "InsufficientEmpties", state |-> state]
    ELSE [error |-> "",
          state |-> [state EXCEPT !.emptyCylinders = @ - count,
                                  !.currentStock = Min(@ + count, GasCeiling(state))]]

\* Settings: { totalCylinders, cylindersPerBank }
GasConfigs ==
    { [totalCylinders |-> 4, cylindersPerBank |-> 1],
      [totalCylinders |-> 6, cylindersPerBank |-> 2] }

\* Cylinders one event names
GasCounts == 1..3

GasTick ==
    /\ events < MaxGasEvents
    /\ events' = events + 1

nonGasVars ==
    <<formVersion, ctxVars, formVars, alert, saveInFlight, customPending, deleteInFlight,
      editorVars, dashVars>>

GasSwapOf(count) ==
    /\ GasTick
    /\ LET r == swap(gasState, count) IN
       /\ gasState' = r.state
       /\ gasResult' = r.error
    /\ UNCHANGED nonGasVars

GasSwap == \E count \in GasCounts : GasSwapOf(count)

GasRefillOf(count) ==
    /\ GasTick
    /\ LET r == refill(gasState, count) IN
       /\ gasState' = r.state
       /\ gasResult' = r.error
    /\ UNCHANGED nonGasVars

GasRefill == \E count \in GasCounts : GasRefillOf(count)

GasNext ==
    \/ GasSwap
    \/ GasRefill

\* A ledger with full cylinders up to its ceiling and with some empty shells
InitGas ==
    /\ formVersion = 2
    /\ CtxInit
    /\ FormInit
    /\ EditorInit
    /\ DashboardIdle
    /\ gasResult = ""
    /\ \E config \in GasConfigs :
         \E stock \in 0..(config.totalCylinders - config.cylindersPerBank) :
           \E empties \in 0..(config.totalCylinders - config.cylindersPerBank - stock) :
             gasState = [currentStock |-> stock, emptyCylinders |-> empties,
                         totalCylinders |-> config.totalCylinders,
                         cylindersPerBank |-> config.cylindersPerBank]

SpecGas == InitGas /\ [][GasNext]_vars

\* C26: a swap of more cylinders than currentStock holds reports InsufficientStock
\* and leaves currentStock and emptyCylinders as they are; currentStock and
\* emptyCylinders are never below 0.
C26_SwapNeedsStock ==
    [][/\ \A count \in GasCounts :
            (GasSwapOf(count) /\ count > gasState.currentStock)
              => /\ gasResult' = "InsufficientStock"
                 /\ gasState'.currentStock = gasState.currentStock
                 /\ gasState'.emptyCylinders = gasState.emptyCylinders
       /\ gasState.currentStock >= 0 /\ gasState.emptyCylinders >= 0
       /\ gasState'.currentStock >= 0 /\ gasState'.emptyCylinders >= 0]_vars

\* A swap of two cylinders was refused with one full cylinder in stock, after
\* earlier swaps had gone through
C26_Witness ==
    /\ gasResult = "InsufficientStock"
    /\ gasState.currentStock = 1
    /\ gasState.emptyCylinders >= 2
    /\ events >= 2

====
